---- MODULE Spec2Model ----
(***************************************************************************)
(* A model of the poet crate: the interpretation iterator of snippet.rs    *)
(* (LineView::advance_internal, InterpretationsIter::next / size_hint) and *)
(* the phonetic dictionary of dictionary.rs (insert*, similarity keys,     *)
(* last_n_syllables, rhymes_with).                                         *)
(*                                                                         *)
(* Rust positions are 0-based; sequences here are 1-based, so position i   *)
(* of the source is position i + 1 here.  The values stored in `indices`   *)
(* are the source's 0-based variant indices.                               *)
(***************************************************************************)
EXTENDS Integers, Sequences, FiniteSets, TLC

VARIABLES
    stanza,        \* Stanza.lines: a sequence of lines, each a sequence of Token.entry
    filter,        \* InterpretationsIter.filter
    indices,       \* InterpretationsIter.view.lines[i].indices
    first_run,     \* InterpretationsIter.first_run
    ret,           \* what the last call of next returned: "fresh", "some" or "none"
    exhausted,     \* next has returned None at least once
    advanced,      \* next has called LineView::advance at least once
    yielded,       \* the views next returned before its first None, in order
    hint,          \* the upper bound of the last size_hint call, Unset before it
    entries,       \* DictionaryImpl.entries: word -> the word's entries, in insertion order
    reverse_list,  \* DictionaryImpl.reverse_list: rows (similarity key, (word, variant))
    query,         \* the argument of the last call of similar, None before it
    words,         \* SimilarResult.words of the last call of similar
    panicked,      \* a dictionary operation has panicked
    best,          \* analyze_one_file_to_terminal: best, an Option<StanzaView>
    best_errors,   \* analyze_one_file_to_terminal: best_errors
    verdict,       \* the result of the last call of is_shakespearean_sonnet, None before it
    outcome,       \* the analysis of the stanza: "looping", "reported" or "panicked"
    input,         \* get_stanzas_from_text: input.lines(), the raw lines of the text
    line_num,      \* get_stanzas_from_text: the number of lines read so far
    cur_stanza,    \* get_stanzas_from_text: stanza.lines, the lines of the stanza being built
    candidate_title, \* get_stanzas_from_text: candidate_title, an Option<String>
    output,        \* get_stanzas_from_text: output, the stanzas kept so far
    returned,      \* get_stanzas_from_text has returned output
    raw_word,      \* Line::new_from_line: word, a word of the line as it was written
    token,         \* Line::new_from_line: the Token pushed for the word, an Option
    passes         \* the number of normalizations between the first word and token

iterVars == <<stanza, filter, indices, first_run, ret, exhausted, advanced, yielded, hint>>

dictVars == <<entries, reverse_list, query, words, panicked>>

analyzeVars == <<best, best_errors, verdict, outcome>>

textVars == <<input, line_num, cur_stanza, candidate_title, output, returned>>

tokenVars == <<raw_word, token, passes>>

vars == <<iterVars, dictVars, analyzeVars, textVars, tokenVars>>

\* What the operations of each part leave alone.
otherThanIter == <<dictVars, analyzeVars, textVars, tokenVars>>

otherThanDict == <<iterVars, analyzeVars, textVars, tokenVars>>

\* The analysis of a stanza drives the iterator.
otherThanAnalyze == <<dictVars, textVars, tokenVars>>

otherThanText == <<iterVars, dictVars, analyzeVars, tokenVars>>

\* The tokenization of a word reads the dictionary.
otherThanToken == <<iterVars, analyzeVars, textVars, query, words, panicked>>

----------------------------------------------------------------------------
(* Bounds *)

\* The number of tokens of a stanza, over all of its lines.
MaxTokens == 3

\* The number of entries inserted into a dictionary.
MaxEntries == 3

\* The number of lines of one insert_all call or of one lexicon file.
MaxBatch == 2

\* The number of lines of a text given to get_stanzas_from_text.
MaxLines == 7

\* The number of characters of a word given to normalize_for_lookup.
MaxWordLen == 4

Unset == -1

----------------------------------------------------------------------------
(* snippet.rs: Token, Line, Stanza *)

\* Token.entry: Option<&Vec<Entry>>
None == [some |-> FALSE, v |-> <<>>]

Some(v) == [some |-> TRUE, v |-> v]

\* An Entry as the iterator reads it: Entry::num_syllables().
E(n) == [num_syllables |-> n]

\* The values of Token.entry the iterator distinguishes: an unknown word, a
\* word with one variant, and words with two or three variants whose syllable
\* counts agree or differ (as the lexicons of the iterator's tests have).
TokenEntries ==
    { None,
      Some(<<E(1)>>),
      Some(<<E(1), E(1)>>),
      Some(<<E(1), E(2)>>),
      Some(<<E(2), E(2), E(1)>>) }

\* Line.tokens: split_whitespace of a non-empty trimmed line has a token.
LinesOfLen(n) == [1..n -> TokenEntries]

\* The sequences of lines that have t tokens in all.
RECURSIVE LineSeqs(_)
LineSeqs(t) ==
    IF t = 0 THEN { <<>> }
    ELSE UNION { { <<l>> \o rest : l \in LinesOfLen(n), rest \in LineSeqs(t - n) } :
                 n \in 1..t }

\* get_stanzas_from_text emits a Stanza only for a block of 2 or more lines.
MinStanzaLines == 2

Stanzas ==
    { s \in UNION { LineSeqs(t) : t \in 0..MaxTokens } : Len(s) >= MinStanzaLines }

----------------------------------------------------------------------------
(* snippet.rs: LineView *)

\* LineView::new: indices = vec![0; l.tokens.len()]
LineView_new(l) == [i \in 1..Len(l) |-> 0]

\* StanzaView::new
StanzaView_new(s) == [i \in 1..Len(s) |-> LineView_new(s[i])]

\* v[1..].iter().all(|e| e.num_syllables() == v[0].num_syllables())
AllSameSyllables(v) ==
    \A k \in 2..Len(v) : v[k].num_syllables = v[1].num_syllables

\* SkipsToken with the filter flag ignored: pruning is always on.
SkipsToken_IgnoresFilter(v, filter_, idx, len) ==
    \/ Len(v) = 1
    \/ idx # len /\ AllSameSyllables(v)

\* SkipsToken without the end-of-line exemption: the last token is pruned too.
SkipsToken_PrunesLast(v, filter_, idx, len) ==
    \/ Len(v) = 1
    \/ filter_ /\ AllSameSyllables(v)

\* SkipsToken without the syllable comparison: every interior token is pruned.
SkipsToken_PrunesAnyInterior(v, filter_, idx, len) ==
    \/ Len(v) = 1
    \/ idx # len /\ filter_

\* The two cases in which a token at index 0 is not incremented
\* (advance_internal, `if self.indices[idx] == 0 { ... }`).
SkipsToken(v, filter_, idx, len) ==
    \/ Len(v) = 1
    \/ idx # len /\ filter_ /\ AllSameSyllables(v)

\* LineView::advance_internal(filter, idx); idx is 1-based here.
\* advance_internal that does not roll an index back to 0.
RECURSIVE advance_internal_NoRollBack(_, _, _, _)
advance_internal_NoRollBack(line, ind, filter_, idx) ==
    IF idx > Len(ind)
    THEN [indices |-> ind, done |-> TRUE]
    ELSE LET later == advance_internal_NoRollBack(line, ind, filter_, idx + 1)
             cur   == later.indices
         IN  IF ~later.done
             THEN [indices |-> cur, done |-> FALSE]
             ELSE IF line[idx].some
                  THEN LET v == line[idx].v
                       IN  IF cur[idx] = 0 /\ SkipsToken(v, filter_, idx, Len(cur))
                           THEN [indices |-> cur, done |-> TRUE]
                           ELSE [indices |-> [cur EXCEPT ![idx] = cur[idx] + 1],
                                 done |-> cur[idx] + 1 >= Len(v)]
                  ELSE [indices |-> cur, done |-> TRUE]

RECURSIVE advance_internal(_, _, _, _)
advance_internal(line, ind, filter_, idx) ==
    IF idx > Len(ind)
    THEN [indices |-> ind, done |-> TRUE]
    ELSE LET later == advance_internal(line, ind, filter_, idx + 1)
             cur   == later.indices
         IN  IF ~later.done
             THEN [indices |-> cur, done |-> FALSE]
             ELSE IF line[idx].some
                  THEN LET v == line[idx].v
                       IN  IF cur[idx] = 0 /\ SkipsToken(v, filter_, idx, Len(cur))
                           THEN [indices |-> cur, done |-> TRUE]
                           ELSE IF cur[idx] + 1 = Len(v)
                                THEN [indices |-> [cur EXCEPT ![idx] = 0], done |-> TRUE]
                                ELSE [indices |-> [cur EXCEPT ![idx] = cur[idx] + 1],
                                      done |-> FALSE]
                  ELSE [indices |-> cur, done |-> TRUE]

\* LineView::advance
advance(line, ind, filter_) == advance_internal(line, ind, filter_, 1)

\* LineView::num_syllables
RECURSIVE SumSyllables(_, _, _)
SumSyllables(line, ind, i) ==
    IF i > Len(line) THEN 0
    ELSE (IF line[i].some THEN line[i].v[ind[i] + 1].num_syllables ELSE 0)
         + SumSyllables(line, ind, i + 1)

num_syllables(line, ind) == SumSyllables(line, ind, 1)

----------------------------------------------------------------------------
(* Strings: a String is the sequence of its characters' code points. *)

IsDigit(c) == c \in 48..57

IsUpper(c) == c \in 65..90

\* char::is_whitespace, over ASCII
IsSpace(c) == c \in {9, 10, 11, 12, 13, 32}

\* str::cmp: lexicographic by code point, a proper prefix first.
StrCmp(a, b) ==
    LET n     == IF Len(a) < Len(b) THEN Len(a) ELSE Len(b)
        diffs == { i \in 1..n : a[i] # b[i] }
    IN  IF diffs = {}
        THEN (IF Len(a) = Len(b) THEN 0 ELSE IF Len(a) < Len(b) THEN -1 ELSE 1)
        ELSE LET i == CHOOSE d \in diffs : \A o \in diffs : d <= o
             IN  IF a[i] < b[i] THEN -1 ELSE 1

\* str::starts_with
starts_with(str, prefix) ==
    /\ Len(prefix) <= Len(str)
    /\ SubSeq(str, 1, Len(prefix)) = prefix

\* The length of the longest prefix of str whose characters are all in set.
RECURSIVE RunLen(_, _)
RunLen(str, set) ==
    IF str = <<>> \/ Head(str) \notin set THEN 0 ELSE 1 + RunLen(Tail(str), set)

\* str[n..]
Drop(str, n) == SubSeq(str, n + 1, Len(str))

\* str::split_whitespace
RECURSIVE split_whitespace(_)
split_whitespace(str) ==
    LET body == Drop(str, RunLen(str, {9, 10, 11, 12, 13, 32}))
        n    == RunLen(body, (0..127) \ {9, 10, 11, 12, 13, 32})
    IN  IF body = <<>> THEN <<>>
        ELSE <<SubSeq(body, 1, n)>> \o split_whitespace(Drop(body, n))

\* str::parse::<i32> of a run of decimal digits (unbounded here; see Entry_new).
RECURSIVE ParseDigits(_, _)
ParseDigits(digits, acc) ==
    IF digits = <<>> THEN acc
    ELSE ParseDigits(Tail(digits), 10 * acc + (Head(digits) - 48))

\* format!("{}", n) of a non-negative integer
RECURSIVE Decimal(_)
Decimal(n) == IF n < 10 THEN <<48 + n>> ELSE Decimal(n \div 10) \o <<48 + (n % 10)>>

----------------------------------------------------------------------------
(* snippet.rs: normalize_for_lookup *)

\* char::to_lowercase, of the characters used here
to_lowercase(c) == IF IsUpper(c) THEN c + 32 ELSE c

\* '!' ',' '?' ':' ';' '"' and the curly double quotes
StrippedChars == {33, 44, 63, 58, 59, 34, 8220, 8221}

\* The filter_map over the characters, with the two flags of the closure.
RECURSIVE FilterMap(_, _, _, _)
FilterMap(chars, found_period, has_inner_periods, result) ==
    IF chars = <<>>
    THEN [result |-> result, has_inner_periods |-> has_inner_periods]
    ELSE LET c == Head(chars)
         IN  IF c \in StrippedChars
             THEN FilterMap(Tail(chars), found_period, has_inner_periods, result)
             ELSE IF c = 8217
             THEN FilterMap(Tail(chars), found_period, has_inner_periods,
                            Append(result, 39))
             ELSE IF c = 46
             THEN FilterMap(Tail(chars), TRUE, has_inner_periods, Append(result, c))
             ELSE FilterMap(Tail(chars), found_period,
                            has_inner_periods \/ found_period, Append(result, c))

\* result.replace('.', "")
RECURSIVE RemovePeriods(_)
RemovePeriods(str) ==
    IF str = <<>> THEN <<>>
    ELSE IF Head(str) = 46 THEN RemovePeriods(Tail(str))
    ELSE <<Head(str)>> \o RemovePeriods(Tail(str))

\* `while result.ends_with('-') { result.pop(); }`
RECURSIVE PopDashes(_)
PopDashes(str) ==
    IF str # <<>> /\ str[Len(str)] = 45 THEN PopDashes(SubSeq(str, 1, Len(str) - 1))
    ELSE str

normalize_for_lookup(t) ==
    LET lowercased_term == [k \in 1..Len(t) |-> to_lowercase(t[k])]
        filtered        == FilterMap(lowercased_term, FALSE, FALSE, <<>>)
        result          == IF ~filtered.has_inner_periods
                           THEN RemovePeriods(filtered.result)
                           ELSE filtered.result
    IN  PopDashes(result)

----------------------------------------------------------------------------
(* snippet.rs: the texts of the classifiers' messages *)

\* "Expected "
Txt_Expected ==
    <<69, 120, 112, 101, 99, 116, 101, 100, 32>>

\* " lines but the stanza has "
Txt_LinesButTheStanzaHas ==
    <<32, 108, 105, 110, 101, 115, 32, 98, 117, 116, 32, 116, 104, 101,
    32, 115, 116, 97, 110, 122, 97, 32, 104, 97, 115, 32>>

\* "."
Txt_Period ==
    <<46>>

\* "line "
Txt_Line ==
    <<108, 105, 110, 101, 32>>

\* " has unknown words and "
Txt_HasUnknownWordsAnd ==
    <<32, 104, 97, 115, 32, 117, 110, 107, 110, 111, 119, 110, 32, 119,
    111, 114, 100, 115, 32, 97, 110, 100, 32>>

\* " syllables already, so it will exceed the limit of "
Txt_SyllablesAlready ==
    <<32, 115, 121, 108, 108, 97, 98, 108, 101, 115, 32, 97, 108, 114,
    101, 97, 100, 121, 44, 32, 115, 111, 32, 105, 116, 32, 119,
    105, 108, 108, 32, 101, 120, 99, 101, 101, 100, 32, 116, 104,
    101, 32, 108, 105, 109, 105, 116, 32, 111, 102, 32>>

\* " has "
Txt_Has ==
    <<32, 104, 97, 115, 32>>

\* " syllables but should have "
Txt_SyllablesButShouldHave ==
    <<32, 115, 121, 108, 108, 97, 98, 108, 101, 115, 32, 98, 117, 116, 32,
    115, 104, 111, 117, 108, 100, 32, 104, 97, 118, 101, 32>>

----------------------------------------------------------------------------
(* snippet.rs: the haiku classifier *)

\* ClassifyError; a StanzaError has no index.
StanzaError(msg) == [kind |-> "StanzaError", index |-> 0, msg |-> msg]

LineError(index, msg) == [kind |-> "LineError", index |-> index, msg |-> msg]

\* LineView::has_unknown_words
has_unknown_words(line) == \E k \in 1..Len(line) : ~line[k].some

\* check_stanza_has_num_lines that accepts a stanza of more than n lines.
check_stanza_has_num_lines_AtLeast(s, n) ==
    IF Len(s) < n
    THEN <<StanzaError(Txt_Expected \o Decimal(n) \o Txt_LinesButTheStanzaHas
                       \o Decimal(Len(s)) \o Txt_Period)>>
    ELSE <<>>

\* check_stanza_has_num_lines
check_stanza_has_num_lines(s, n) ==
    IF Len(s) # n
    THEN <<StanzaError(Txt_Expected \o Decimal(n) \o Txt_LinesButTheStanzaHas
                       \o Decimal(Len(s)) \o Txt_Period)>>
    ELSE <<>>

\* check_line_has_num_syllables that accepts a line with unknown words whose
\* known syllables equal the expected count.
check_line_has_num_syllables_AcceptsEqual(line, ind, index, expected) ==
    LET n == num_syllables(line, ind)
    IN  IF has_unknown_words(line)
        THEN (IF n > expected
              THEN <<LineError(index,
                               Txt_Line \o Decimal(index + 1) \o Txt_HasUnknownWordsAnd
                               \o Decimal(n) \o Txt_SyllablesAlready \o Decimal(expected)
                               \o Txt_Period)>>
              ELSE <<>>)
        ELSE (IF n # expected
              THEN <<LineError(index,
                               Txt_Line \o Decimal(index + 1) \o Txt_Has \o Decimal(n)
                               \o Txt_SyllablesButShouldHave \o Decimal(expected)
                               \o Txt_Period)>>
              ELSE <<>>)

\* check_line_has_num_syllables, of the line at 0-based index `index` whose
\* source line number is index + 1 (a stanza that starts the text).
check_line_has_num_syllables(line, ind, index, expected) ==
    LET n == num_syllables(line, ind)
    IN  IF has_unknown_words(line)
        THEN (IF n >= expected
              THEN <<LineError(index,
                               Txt_Line \o Decimal(index + 1) \o Txt_HasUnknownWordsAnd
                               \o Decimal(n) \o Txt_SyllablesAlready \o Decimal(expected)
                               \o Txt_Period)>>
              ELSE <<>>)
        ELSE (IF n # expected
              THEN <<LineError(index,
                               Txt_Line \o Decimal(index + 1) \o Txt_Has \o Decimal(n)
                               \o Txt_SyllablesButShouldHave \o Decimal(expected)
                               \o Txt_Period)>>
              ELSE <<>>)

HaikuSyllables == <<5, 7, 5>>

\* is_haiku: Ok(()) or Err(errors)
is_haiku(s, w) ==
    LET wrong_lines == check_stanza_has_num_lines(s, Len(HaikuSyllables))
        errors == check_line_has_num_syllables(s[1], w[1], 0, HaikuSyllables[1])
                  \o check_line_has_num_syllables(s[2], w[2], 1, HaikuSyllables[2])
                  \o check_line_has_num_syllables(s[3], w[3], 2, HaikuSyllables[3])
    IN  IF wrong_lines # <<>> THEN [ok |-> FALSE, errors |-> wrong_lines]
        ELSE [ok |-> errors = <<>>, errors |-> errors]

----------------------------------------------------------------------------
(* snippet.rs: InterpretationsIter *)

\* The loop of InterpretationsIter::next over self.view.lines, from line i on:
\* the first line that advances without rolling over ends the loop.
\* AdvanceLines that goes over the lines from the last one to the first.
RECURSIVE AdvanceLines_LastLineFirst(_, _, _, _)
AdvanceLines_LastLineFirst(s, inds, filter_, i) ==
    IF i > Len(s)
    THEN [lines |-> inds, some |-> FALSE]
    ELSE LET j == Len(s) + 1 - i
             r == advance(s[j], inds[j], filter_)
             next_inds == [inds EXCEPT ![j] = r.indices]
         IN  IF ~r.done
             THEN [lines |-> next_inds, some |-> TRUE]
             ELSE AdvanceLines_LastLineFirst(s, next_inds, filter_, i + 1)

RECURSIVE AdvanceLines(_, _, _, _)
AdvanceLines(s, inds, filter_, i) ==
    IF i > Len(s)
    THEN [lines |-> inds, some |-> FALSE]
    ELSE LET r == advance(s[i], inds[i], filter_)
             next_inds == [inds EXCEPT ![i] = r.indices]
         IN  IF ~r.done
             THEN [lines |-> next_inds, some |-> TRUE]
             ELSE AdvanceLines(s, next_inds, filter_, i + 1)

\* InterpretationsIter::size_hint: the product, over the tokens with more than
\* one variant, of the variant counts (count_unfiltered) or of those of the
\* tokens that are last on their line or have differing syllable counts (count).
RECURSIVE CountLine(_, _, _)
\* CountLine with the end-of-line exemption missing: a last token whose
\* variants share a syllable count is left out of the filtered count.
CountLine_NoLastToken(line, filter_, i) ==
    IF i > Len(line) THEN 1
    ELSE LET rest == CountLine(line, filter_, i + 1)
             v    == line[i].v
         IN  IF ~line[i].some \/ Len(v) = 1 THEN rest
             ELSE IF AllSameSyllables(v)
                  THEN (IF filter_ THEN rest ELSE Len(v) * rest)
                  ELSE Len(v) * rest

\* CountLine with count_unfiltered multiplied in the else branch only: the
\* two counts agree on every interior token.
CountLine_UnfilteredInElse(line, filter_, i) ==
    IF i > Len(line) THEN 1
    ELSE LET rest == CountLine(line, filter_, i + 1)
             v    == line[i].v
         IN  IF ~line[i].some \/ Len(v) = 1 THEN rest
             ELSE IF i = Len(line) THEN Len(v) * rest
             ELSE IF AllSameSyllables(v) THEN rest
                  ELSE Len(v) * rest

CountLine(line, filter_, i) ==
    IF i > Len(line) THEN 1
    ELSE LET rest == CountLine(line, filter_, i + 1)
             v    == line[i].v
         IN  IF ~line[i].some \/ Len(v) = 1 THEN rest
             ELSE IF i = Len(line) THEN Len(v) * rest
             ELSE IF AllSameSyllables(v)
                  THEN (IF filter_ THEN rest ELSE Len(v) * rest)
                  ELSE Len(v) * rest

RECURSIVE CountLines(_, _, _)
CountLines(s, filter_, i) ==
    IF i > Len(s) THEN 1
    ELSE CountLine(s[i], filter_, 1) * CountLines(s, filter_, i + 1)

size_hint(s, filter_) == CountLines(s, filter_, 1)

\* Stanza::interpretations / InterpretationsIter::new over some stanza; the
\* filter field is true by default and may be cleared before iterating.
IterInit ==
    /\ stanza \in Stanzas
    /\ filter \in BOOLEAN
    /\ indices = StanzaView_new(stanza)
    /\ first_run = TRUE
    /\ ret = "fresh"
    /\ exhausted = FALSE
    /\ advanced = FALSE
    /\ yielded = <<>>
    /\ hint = Unset

\* NextFirst without the first_run shortcut: the first call advances too.
NextFirst_AdvancesFirst ==
    /\ first_run
    /\ first_run' = FALSE
    /\ LET r == AdvanceLines(stanza, indices, filter, 1)
       IN  /\ indices' = r.lines
           /\ ret' = IF r.some THEN "some" ELSE "none"
           /\ exhausted' = ~r.some
           /\ yielded' = IF r.some THEN Append(yielded, r.lines) ELSE yielded
    /\ advanced' = TRUE
    /\ UNCHANGED <<stanza, filter, hint, otherThanIter>>

\* InterpretationsIter::next, the first call: the view as constructed.
NextFirst ==
    /\ first_run
    /\ first_run' = FALSE
    /\ ret' = "some"
    /\ yielded' = Append(yielded, indices)
    /\ UNCHANGED <<stanza, filter, indices, exhausted, advanced, hint, otherThanIter>>

\* InterpretationsIter::next, a later call: advance the lines in order.
NextAdvance ==
    /\ ~first_run
    /\ LET r == AdvanceLines(stanza, indices, filter, 1)
       IN  /\ indices' = r.lines
           /\ ret' = IF r.some THEN "some" ELSE "none"
           /\ exhausted' = (exhausted \/ ~r.some)
           /\ yielded' = IF r.some /\ ~exhausted
                         THEN Append(yielded, r.lines)
                         ELSE yielded
    /\ advanced' = TRUE
    /\ UNCHANGED <<stanza, filter, first_run, hint, otherThanIter>>

\* InterpretationsIter::size_hint (&self): reads the stanza and the filter.
SizeHint ==
    /\ hint' = size_hint(stanza, filter)
    /\ UNCHANGED <<stanza, filter, indices, first_run, ret, exhausted, advanced, yielded, otherThanIter>>

----------------------------------------------------------------------------
(* dictionary.rs: Phonemes *)

\* PHONEME_RE.captures(ph): the leftmost match of [A-Z]+([0-9]+)?, as
\* [matched, text (capture 0), vowel (capture 1 is present)].
RECURSIVE PhonemeMatch(_)
PhonemeMatch(tok) ==
    IF tok = <<>> THEN [matched |-> FALSE, text |-> <<>>, vowel |-> FALSE]
    ELSE IF ~IsUpper(Head(tok)) THEN PhonemeMatch(Tail(tok))
    ELSE LET nl == RunLen(tok, 65..90)
             nd == RunLen(Drop(tok, nl), 48..57)
         IN  [matched |-> TRUE, text |-> SubSeq(tok, 1, nl + nd), vowel |-> nd > 0]

\* from_slice that counts every phoneme as a syllable.
RECURSIVE from_slice_CountsAll(_)
from_slice_CountsAll(tokens) ==
    IF tokens = <<>> THEN [panic |-> FALSE, phonemes |-> <<>>, syllables |-> 0]
    ELSE LET m    == PhonemeMatch(Head(tokens))
             rest == from_slice_CountsAll(Tail(tokens))
         IN  IF ~m.matched \/ rest.panic
             THEN [panic |-> TRUE, phonemes |-> <<>>, syllables |-> 0]
             ELSE [panic |-> FALSE,
                   phonemes |-> <<m.text>> \o rest.phonemes,
                   syllables |-> 1 + rest.syllables]

\* Phonemes::from_slice: the phonemes and the syllable count, or a panic of
\* the unwrap when a token has no match.
RECURSIVE from_slice(_)
from_slice(tokens) ==
    IF tokens = <<>> THEN [panic |-> FALSE, phonemes |-> <<>>, syllables |-> 0]
    ELSE LET m    == PhonemeMatch(Head(tokens))
             rest == from_slice(Tail(tokens))
         IN  IF ~m.matched \/ rest.panic
             THEN [panic |-> TRUE, phonemes |-> <<>>, syllables |-> 0]
             ELSE [panic |-> FALSE,
                   phonemes |-> <<m.text>> \o rest.phonemes,
                   syllables |-> (IF m.vowel THEN 1 ELSE 0) + rest.syllables]

\* Phonemes::similarity_key: each phoneme and a space, last phoneme first.
RECURSIVE Phonemes_similarity_key(_)
Phonemes_similarity_key(phs) ==
    IF phs = <<>> THEN <<>>
    ELSE phs[Len(phs)] \o <<32>> \o Phonemes_similarity_key(SubSeq(phs, 1, Len(phs) - 1))

\* ph.matches(char::is_numeric).count() > 0
is_vowel(ph) == \E k \in 1..Len(ph) : IsDigit(ph[k])

\* Phonemes::last_n_syllables: the loop from the last phoneme backwards, with
\* vowel_count vowels seen so far.
RECURSIVE LastSyllablesFrom(_, _, _)
LastSyllablesFrom(phs, syllable_count, vowel_count) ==
    IF phs = <<>> THEN <<>>
    ELSE LET ph == phs[Len(phs)]
             vc == IF is_vowel(ph) THEN vowel_count + 1 ELSE vowel_count
         IN  ph \o <<32>> \o
             (IF is_vowel(ph) /\ vc >= syllable_count THEN <<>>
              ELSE LastSyllablesFrom(SubSeq(phs, 1, Len(phs) - 1), syllable_count, vc))

last_n_syllables(phs, syllable_count) == LastSyllablesFrom(phs, syllable_count, 0)

\* Phonemes::rhymes_with
rhymes_with(a, b) == last_n_syllables(a, 1) = last_n_syllables(b, 1)

----------------------------------------------------------------------------
(* dictionary.rs: Entry *)

\* Entry::new(line): the entry, or a panic (of tokens[0], of an unwrap).
Entry_new(line) ==
    LET hash    == RunLen(line, (0..127) \ {35})
        trimmed == SubSeq(line, 1, hash)
        tokens  == split_whitespace(trimmed)
    IN  IF tokens = <<>>
        THEN [panic |-> TRUE, word |-> <<>>, variant |-> 1, phonemes |-> <<>>, syllables |-> 0]
        ELSE LET term   == tokens[1]
                 nw     == RunLen(term, (0..127) \ {32, 40, 41, 35})
                 after  == Drop(term, nw)
                 nd     == IF after # <<>> /\ Head(after) = 40
                           THEN RunLen(Tail(after), 48..57) ELSE 0
                 hasvar == /\ nd > 0
                           /\ Len(after) >= nd + 2
                           /\ after[nd + 2] = 41
                 num    == ParseDigits(SubSeq(after, 2, nd + 1), 0)
                 ph     == from_slice(Tail(tokens))
             IN  [panic     |-> ph.panic \/ (hasvar /\ num > 2147483647),
                  word      |-> SubSeq(term, 1, nw),
                  variant   |-> IF hasvar THEN num ELSE 1,
                  phonemes  |-> ph.phonemes,
                  syllables |-> ph.syllables]

\* Entry::dict_key
dict_key(e) ==
    IF e.variant = 1 THEN e.word
    ELSE e.word \o <<40>> \o Decimal(e.variant) \o <<41>>

\* Entry::similarity_key
similarity_key(e) == Phonemes_similarity_key(e.phonemes) \o dict_key(e)

\* Entry::similarity_prefix
similarity_prefix(e, syllable_count) == last_n_syllables(e.phonemes, syllable_count)

\* Entry::rhymes_with
Entry_rhymes_with(a, b) == rhymes_with(a.phonemes, b.phonemes)

----------------------------------------------------------------------------
(* dictionary.rs: DictionaryImpl *)

\* Lines of a lexicon in cmudict format.
LexiconLines ==
    { <<97, 32, 73, 89, 49, 32, 68>>,                       \* "a IY1 D"
      <<97, 40, 50, 41, 32, 65, 72, 48, 32, 73, 89, 49, 32, 68>>,  \* "a(2) AH0 IY1 D"
      <<98, 32, 73, 89, 49, 32, 68>>,                       \* "b IY1 D"
      <<98, 32, 68>>,                                       \* "b D"
      <<99, 32, 83, 32, 73, 89, 49, 32, 68, 32, 35, 120>>,  \* "c S IY1 D #x"
      <<100, 32, 65, 89, 49>> }                             \* "d AY1"

\* Lines that Entry::new cannot parse: an empty line, a line that is only a
\* comment, and a line with a phoneme that has no upper-case letter.
MalformedLines ==
    { <<>>,                                                 \* ""
      <<35, 120>>,                                          \* "#x"
      <<101, 32, 49>> }                                     \* "e 1"

\* The order of the rows of reverse_list: Ord of (String, (String, i32)).
RowCmp(r1, r2) ==
    IF StrCmp(r1.key, r2.key) # 0 THEN StrCmp(r1.key, r2.key)
    ELSE IF StrCmp(r1.word, r2.word) # 0 THEN StrCmp(r1.word, r2.word)
    ELSE IF r1.variant < r2.variant THEN -1
    ELSE IF r1.variant > r2.variant THEN 1
    ELSE 0

\* Vec::sort (a stable sort): the rows in ascending order.
RECURSIVE InsertSorted(_, _)
InsertSorted(sorted, row) ==
    IF sorted = <<>> THEN <<row>>
    ELSE IF RowCmp(row, Head(sorted)) < 0 THEN <<row>> \o sorted
    ELSE <<Head(sorted)>> \o InsertSorted(Tail(sorted), row)

RECURSIVE SortFrom(_, _)
SortFrom(rows, sorted) ==
    IF rows = <<>> THEN sorted
    ELSE SortFrom(Tail(rows), InsertSorted(sorted, Head(rows)))

sort(rows) == SortFrom(rows, <<>>)

\* DictionaryImpl::new
DictionaryImpl_new == [entries |-> <<>>, reverse_list |-> <<>>]

\* DictionaryImpl::insert_internal
insert_internal(dict, entry) ==
    [reverse_list |->
        Append(dict.reverse_list,
               [key |-> similarity_key(entry), word |-> entry.word, variant |-> entry.variant]),
     entries |->
        IF entry.word \in DOMAIN dict.entries
        THEN [dict.entries EXCEPT ![entry.word] = Append(@, entry)]
        ELSE [w \in DOMAIN dict.entries \cup {entry.word} |->
                IF w = entry.word THEN <<entry>> ELSE dict.entries[w]]]

\* insert without the sort of the reverse list.
insert_NoSort(dict, entry) == insert_internal(dict, entry)

\* DictionaryImpl::insert
insert(dict, entry) ==
    LET d == insert_internal(dict, entry)
    IN  [d EXCEPT !.reverse_list = sort(d.reverse_list)]

\* The loop of insert_all and of new_from_cmudict_file: insert_internal of
\* the entry of every line, in order.
RECURSIVE InsertLines(_, _)
InsertLines(dict, lines) ==
    IF lines = <<>> THEN dict
    ELSE InsertLines(insert_internal(dict, Entry_new(Head(lines))), Tail(lines))

\* DictionaryImpl::insert_all
insert_all(dict, lines) ==
    LET d == InsertLines(dict, lines)
    IN  [d EXCEPT !.reverse_list = sort(d.reverse_list)]

\* DictionaryImpl::new_from_cmudict_file, of a file that is read without error
new_from_cmudict_file(lines) ==
    LET d == InsertLines(DictionaryImpl_new, lines)
    IN  [d EXCEPT !.reverse_list = sort(d.reverse_list)]

\* DictionaryImpl::lookup
lookup(dict, term) ==
    IF term \in DOMAIN dict.entries THEN Some(dict.entries[term]) ELSE None

\* DictionaryImpl::lookup_variant: the first entry of the term with the variant.
lookup_variant(dict, term, variant) ==
    IF term \in DOMAIN dict.entries
       /\ \E k \in 1..Len(dict.entries[term]) : dict.entries[term][k].variant = variant
    THEN LET k == CHOOSE k \in 1..Len(dict.entries[term]) :
                    /\ dict.entries[term][k].variant = variant
                    /\ \A j \in 1..(k - 1) : dict.entries[term][j].variant # variant
         IN  Some(dict.entries[term][k])
    ELSE None

\* Phonemes::similarity_score: the phonemes of the two lists that are equal,
\* pairwise from the last one backwards.
RECURSIVE similarity_score(_, _)
similarity_score(a, b) ==
    IF a = <<>> \/ b = <<>> THEN 0
    ELSE IF a[Len(a)] = b[Len(b)]
         THEN 1 + similarity_score(SubSeq(a, 1, Len(a) - 1), SubSeq(b, 1, Len(b) - 1))
         ELSE 0

\* Ord for SimilarWord: descending by score, then ascending by word.
SimilarWord_cmp(x, y) ==
    IF x.score < y.score THEN 1
    ELSE IF x.score > y.score THEN -1
    ELSE StrCmp(x.word, y.word)

\* result.words.sort() (a stable sort)
RECURSIVE InsertSortedWord(_, _)
InsertSortedWord(sorted, x) ==
    IF sorted = <<>> THEN <<x>>
    ELSE IF SimilarWord_cmp(x, Head(sorted)) < 0 THEN <<x>> \o sorted
    ELSE <<Head(sorted)>> \o InsertSortedWord(Tail(sorted), x)

RECURSIVE SortWordsFrom(_, _)
SortWordsFrom(ws, sorted) ==
    IF ws = <<>> THEN sorted
    ELSE SortWordsFrom(Tail(ws), InsertSortedWord(sorted, Head(ws)))

sort_words(ws) == SortWordsFrom(ws, <<>>)

\* The inner loop of similar, from row i of the reverse list on: the words
\* pushed for one query variant, or a panic of the unwrap of lookup_variant.
RECURSIVE ScanRows(_, _, _, _)
\* ScanRows without the test `word == query`: the query word is a result too.
ScanRows_KeepsSelf(dict, q, query_variant, i) ==
    IF i > Len(dict.reverse_list) THEN [panic |-> FALSE, words |-> <<>>]
    ELSE LET row  == dict.reverse_list[i]
             rest == ScanRows(dict, q, query_variant, i + 1)
         IN  IF ~starts_with(row.key, similarity_prefix(query_variant, 1)) THEN rest
             ELSE LET potential_rhyme == lookup_variant(dict, row.word, row.variant)
                  IN  IF ~potential_rhyme.some THEN [panic |-> TRUE, words |-> <<>>]
                      ELSE [panic |-> rest.panic,
                            words |->
                              <<[word      |-> row.word,
                                 syllables |-> potential_rhyme.v.syllables,
                                 score     |-> similarity_score(query_variant.phonemes,
                                                                potential_rhyme.v.phonemes)]>>
                              \o rest.words]

ScanRows(dict, q, query_variant, i) ==
    IF i > Len(dict.reverse_list) THEN [panic |-> FALSE, words |-> <<>>]
    ELSE LET row  == dict.reverse_list[i]
             rest == ScanRows(dict, q, query_variant, i + 1)
         IN  IF ~starts_with(row.key, similarity_prefix(query_variant, 1)) THEN rest
             ELSE IF row.word = q THEN rest
             ELSE LET potential_rhyme == lookup_variant(dict, row.word, row.variant)
                  IN  IF ~potential_rhyme.some THEN [panic |-> TRUE, words |-> <<>>]
                      ELSE [panic |-> rest.panic,
                            words |->
                              <<[word      |-> row.word,
                                 syllables |-> potential_rhyme.v.syllables,
                                 score     |-> similarity_score(query_variant.phonemes,
                                                                potential_rhyme.v.phonemes)]>>
                              \o rest.words]

\* The outer loop of similar, from query variant k on.
RECURSIVE ScanVariants(_, _, _, _)
\* ScanVariants that stops after one query variant.
ScanVariants_FirstOnly(dict, q, query_variants, k) ==
    IF k > Len(query_variants) THEN [panic |-> FALSE, words |-> <<>>]
    ELSE ScanRows(dict, q, query_variants[k], 1)

ScanVariants(dict, q, query_variants, k) ==
    IF k > Len(query_variants) THEN [panic |-> FALSE, words |-> <<>>]
    ELSE LET here == ScanRows(dict, q, query_variants[k], 1)
             rest == ScanVariants(dict, q, query_variants, k + 1)
         IN  [panic |-> here.panic \/ rest.panic, words |-> here.words \o rest.words]

\* DictionaryImpl::similar
similar(dict, q) ==
    LET query_variants == lookup(dict, q)
    IN  IF ~query_variants.some THEN [panic |-> FALSE, words |-> <<>>]
        ELSE LET r == ScanVariants(dict, q, query_variants.v, 1)
             IN  [panic |-> r.panic, words |-> sort_words(r.words)]

Dict == [entries |-> entries, reverse_list |-> reverse_list]

Batches == UNION { [1..n -> LexiconLines] : n \in 0..MaxBatch }

\* Lexicon files whose last line is malformed.
MalformedFiles ==
    { Append(b, m) : b \in { x \in Batches : Len(x) < MaxBatch }, m \in MalformedLines }

\* The words asked of similar: the words of the lexicon and an unknown word.
Queries == { <<97>>, <<98>>, <<99>>, <<100>>, <<122>> }

Parses(line) == ~Entry_new(line).panic

\* The entries of the lines that Entry::new accepts.
LexiconEntries == { Entry_new(line) : line \in { l \in LexiconLines : Parses(l) } }

DictInit ==
    /\ entries = DictionaryImpl_new.entries
    /\ reverse_list = DictionaryImpl_new.reverse_list
    /\ query = None
    /\ words = <<>>
    /\ panicked = FALSE

\* The dictionary is filled before it is asked (server::run takes an
\* already-initialized dictionary), and a panic ends the thread.
Loading == ~panicked /\ ~query.some

\* dict.insert(entry), of an entry built by Entry::new
Insert ==
    \E entry \in LexiconEntries :
        /\ Loading
        /\ Len(reverse_list) < MaxEntries
        /\ LET d == insert(Dict, entry)
           IN  /\ entries' = d.entries
               /\ reverse_list' = d.reverse_list
        /\ UNCHANGED <<query, words, panicked, otherThanDict>>

\* dict.insert_raw(line): Entry::new, which may panic, and then insert
InsertRaw ==
    \E line \in LexiconLines \cup MalformedLines :
        /\ Loading
        /\ Len(reverse_list) < MaxEntries
        /\ LET entry == Entry_new(line)
               d     == insert(Dict, entry)
           IN  IF entry.panic
               THEN panicked' = TRUE /\ UNCHANGED <<entries, reverse_list>>
               ELSE /\ entries' = d.entries
                    /\ reverse_list' = d.reverse_list
                    /\ UNCHANGED panicked
        /\ UNCHANGED <<query, words, otherThanDict>>

\* dict.insert_all(lines)
InsertAll ==
    \E lines \in Batches :
        /\ Loading
        /\ \A k \in 1..Len(lines) : Parses(lines[k])
        /\ Len(reverse_list) + Len(lines) <= MaxEntries
        /\ LET d == insert_all(Dict, lines)
           IN  /\ entries' = d.entries
               /\ reverse_list' = d.reverse_list
        /\ UNCHANGED <<query, words, panicked, otherThanDict>>

\* DictionaryImpl::new_from_cmudict_file(path): the new dictionary replaces
\* the old one, unless Entry::new panics on a line of the file.
NewFromCmudictFile ==
    \E lines \in Batches \cup MalformedFiles :
        /\ Loading
        /\ LET d == new_from_cmudict_file(lines)
           IN  IF \E k \in 1..Len(lines) : ~Parses(lines[k])
               THEN panicked' = TRUE /\ UNCHANGED <<entries, reverse_list>>
               ELSE /\ entries' = d.entries
                    /\ reverse_list' = d.reverse_list
                    /\ UNCHANGED panicked
        /\ UNCHANGED <<query, words, otherThanDict>>

\* dict.similar(query)
Similar ==
    \E q \in Queries :
        /\ ~panicked
        /\ LET r == similar(Dict, q)
           IN  /\ query' = Some(q)
               /\ words' = r.words
               /\ panicked' = r.panic
        /\ UNCHANGED <<entries, reverse_list, otherThanDict>>

----------------------------------------------------------------------------
(* snippet.rs: the sonnet classifier *)

\* "lines "
Txt_Lines ==
    <<108, 105, 110, 101, 115, 32>>

\* " and "
Txt_And ==
    <<32, 97, 110, 100, 32>>

\* ": the words "
Txt_TheWords ==
    <<58, 32, 116, 104, 101, 32, 119, 111, 114, 100, 115, 32>>

\* " don't rhyme?"
Txt_DontRhyme ==
    <<32, 100, 111, 110, 39, 116, 32, 114, 104, 121, 109, 101, 63>>

\* "; variant="
Txt_Variant ==
    <<59, 32, 118, 97, 114, 105, 97, 110, 116, 61>>

\* ", syllables="
Txt_Syllables ==
    <<44, 32, 115, 121, 108, 108, 97, 98, 108, 101, 115, 61>>

\* Display for Phonemes: the phonemes joined by spaces.
RECURSIVE Phonemes_fmt(_)
Phonemes_fmt(phs) ==
    IF phs = <<>> THEN <<>>
    ELSE IF Len(phs) = 1 THEN phs[1]
    ELSE phs[1] \o <<32>> \o Phonemes_fmt(Tail(phs))

\* Display for Entry: "\"{}\" ({}); variant={}, syllables={}"
Entry_fmt(e) ==
    <<34>> \o e.word \o <<34, 32, 40>> \o Phonemes_fmt(e.phonemes) \o <<41>>
    \o Txt_Variant \o Decimal(e.variant) \o Txt_Syllables \o Decimal(e.num_syllables)

\* LineView::get_entry(idx), idx 1-based: an Option<&Entry>
get_entry(line, ind, idx) ==
    IF line[idx].some THEN Some(line[idx].v[ind[idx] + 1]) ELSE None

\* LineView::last_entry
last_entry(line, ind) == get_entry(line, ind, Len(ind))

\* check_lines_rhyme that reports a pair that does not rhyme on its first
\* line only.
check_lines_rhyme_FirstLineOnly(s, w, a, b) ==
    LET a_last_entry == last_entry(s[a + 1], w[a + 1])
        b_last_entry == last_entry(s[b + 1], w[b + 1])
        error_msg    == Txt_Lines \o Decimal(a + 1) \o Txt_And \o Decimal(b + 1)
                        \o Txt_TheWords \o Entry_fmt(a_last_entry.v) \o Txt_And
                        \o Entry_fmt(b_last_entry.v) \o Txt_DontRhyme
    IN  IF ~a_last_entry.some \/ ~b_last_entry.some THEN <<>>
        ELSE IF Entry_rhymes_with(a_last_entry.v, b_last_entry.v) THEN <<>>
        ELSE <<LineError(a, error_msg)>>

\* check_lines_rhyme, of the lines at the 0-based indices a and b of the view.
check_lines_rhyme(s, w, a, b) ==
    LET a_last_entry == last_entry(s[a + 1], w[a + 1])
        b_last_entry == last_entry(s[b + 1], w[b + 1])
        error_msg    == Txt_Lines \o Decimal(a + 1) \o Txt_And \o Decimal(b + 1)
                        \o Txt_TheWords \o Entry_fmt(a_last_entry.v) \o Txt_And
                        \o Entry_fmt(b_last_entry.v) \o Txt_DontRhyme
    IN  IF ~a_last_entry.some \/ ~b_last_entry.some THEN <<>>
        ELSE IF Entry_rhymes_with(a_last_entry.v, b_last_entry.v) THEN <<>>
        ELSE <<LineError(a, error_msg), LineError(b, error_msg)>>

SonnetLines == 14

SonnetSyllables == 10

rhyming_lines == <<<<0, 2>>, <<1, 3>>, <<4, 6>>, <<5, 7>>, <<8, 10>>, <<9, 11>>, <<12, 13>>>>

\* SyllableErrors that stops at the first line with an error.
RECURSIVE SyllableErrors_StopsAtFirst(_, _, _)
SyllableErrors_StopsAtFirst(s, w, i) ==
    IF i > Len(s) THEN <<>>
    ELSE LET v == check_line_has_num_syllables(s[i], w[i], i - 1, SonnetSyllables)
         IN  IF v # <<>> THEN v ELSE SyllableErrors_StopsAtFirst(s, w, i + 1)

\* The loop of is_shakespearean_sonnet over the lines, from line i on.
RECURSIVE SyllableErrors(_, _, _)
SyllableErrors(s, w, i) ==
    IF i > Len(s) THEN <<>>
    ELSE check_line_has_num_syllables(s[i], w[i], i - 1, SonnetSyllables)
         \o SyllableErrors(s, w, i + 1)

\* The loop of is_shakespearean_sonnet over rhyming_lines, from pair k on.
RECURSIVE RhymeErrors(_, _, _)
RhymeErrors(s, w, k) ==
    IF k > Len(rhyming_lines) THEN <<>>
    ELSE check_lines_rhyme(s, w, rhyming_lines[k][1], rhyming_lines[k][2])
         \o RhymeErrors(s, w, k + 1)

\* is_shakespearean_sonnet: Ok(()) or Err(errors)
is_shakespearean_sonnet(s, w) ==
    LET wrong_lines == check_stanza_has_num_lines(s, SonnetLines)
        errors      == SyllableErrors(s, w, 1) \o RhymeErrors(s, w, 1)
    IN  IF wrong_lines # <<>> THEN [ok |-> FALSE, errors |-> wrong_lines]
        ELSE [ok |-> errors = <<>>, errors |-> errors]

\* PartialEq for ClassifyError
ClassifyError_eq(e1, e2) ==
    IF e1.kind = "StanzaError" /\ e2.kind = "StanzaError" THEN e1.msg = e2.msg
    ELSE IF e1.kind = "LineError" /\ e2.kind = "LineError"
    THEN e1.index = e2.index /\ e1.msg = e2.msg
    ELSE FALSE

\* ClassifyError_cmp that compares two LineErrors by their index alone.
ClassifyError_cmp_ByIndexOnly(e1, e2) ==
    IF e1.kind = "StanzaError" /\ e2.kind = "StanzaError" THEN StrCmp(e1.msg, e2.msg)
    ELSE IF e1.kind = "StanzaError" THEN -1
    ELSE IF e2.kind = "StanzaError" THEN 1
    ELSE IF e1.index = e2.index THEN 0
    ELSE IF e1.index < e2.index THEN -1
    ELSE 1

\* Ord for ClassifyError
ClassifyError_cmp(e1, e2) ==
    IF e1.kind = "StanzaError" /\ e2.kind = "StanzaError" THEN StrCmp(e1.msg, e2.msg)
    ELSE IF e1.kind = "StanzaError" THEN -1
    ELSE IF e2.kind = "StanzaError" THEN 1
    ELSE IF e1.index = e2.index THEN StrCmp(e1.msg, e2.msg)
    ELSE IF e1.index < e2.index THEN -1
    ELSE 1

\* v.sort() of a Vec<ClassifyError> (a stable sort)
RECURSIVE InsertSortedError(_, _)
InsertSortedError(sorted, e) ==
    IF sorted = <<>> THEN <<e>>
    ELSE IF ClassifyError_cmp(e, Head(sorted)) < 0 THEN <<e>> \o sorted
    ELSE <<Head(sorted)>> \o InsertSortedError(Tail(sorted), e)

RECURSIVE SortErrorsFrom(_, _)
SortErrorsFrom(es, sorted) ==
    IF es = <<>> THEN sorted
    ELSE SortErrorsFrom(Tail(es), InsertSortedError(sorted, Head(es)))

sort_errors(es) == SortErrorsFrom(es, <<>>)

----------------------------------------------------------------------------
(* snippet.rs: analyze_one_file_to_terminal, the analysis of one stanza *)

\* An Entry of the dictionary as a Token holds it; Entry::num_syllables
\* returns the count kept with the phonemes.
TokenEntry(e) ==
    [word |-> e.word, variant |-> e.variant, phonemes |-> e.phonemes,
     num_syllables |-> e.syllables]

\* Token.entry: dict.lookup(&normalized_text)
Token_entry(dict, text) ==
    LET entry_vec == lookup(dict, text)
    IN  IF entry_vec.some
        THEN Some([k \in 1..Len(entry_vec.v) |-> TokenEntry(entry_vec.v[k])])
        ELSE None

\* Line::new_from_line, of the words of the line.
Line_new_from_line(dict, line_words) ==
    [k \in 1..Len(line_words) |->
        Token_entry(dict, normalize_for_lookup(line_words[k]))]

RECURSIVE Repeat(_, _)
Repeat(str, n) == IF n = 0 THEN <<>> ELSE str \o Repeat(str, n - 1)

\* " AH0", an unstressed syllable
Syl == <<32, 65, 72, 48>>

\* " IY1 D" and " AY1", two last syllables that do not rhyme
EndEed == <<32, 73, 89, 49, 32, 68>>

EndEye == <<32, 65, 89, 49>>

\* A lexicon for lines of ten syllables:
\*   p     ten syllables, ends in IY1 D
\*   q     ten syllables, ends in AY1
\*   r     ten syllables, ends in IY1 D;  r(2) ten syllables, ends in AY1
\*   s     nine syllables, ends in AY1;   s(2) ten syllables, ends in IY1 D
\*   t     five syllables;                t(2) five syllables
\*   u     five syllables, ends in IY1 D
SonnetLexicon ==
    << <<112>> \o Repeat(Syl, 9) \o EndEed,
       <<113>> \o Repeat(Syl, 9) \o EndEye,
       <<114>> \o Repeat(Syl, 9) \o EndEed,
       <<114, 40, 50, 41>> \o Repeat(Syl, 9) \o EndEye,
       <<115>> \o Repeat(Syl, 8) \o EndEye,
       <<115, 40, 50, 41>> \o Repeat(Syl, 9) \o EndEed,
       <<116>> \o Repeat(Syl, 5),
       <<116, 40, 50, 41>> \o Repeat(Syl, 4) \o EndEye,
       <<117>> \o Repeat(Syl, 4) \o EndEed >>

SonnetDict == new_from_cmudict_file(SonnetLexicon)

\* The lines of the long stanzas, as their words: "p", "q", "r", "s", "z" (a
\* word that is not in the lexicon), "t u" and "z p".
SonnetLineKinds ==
    { Line_new_from_line(SonnetDict, ws) :
        ws \in { << <<112>> >>, << <<113>> >>, << <<114>> >>, << <<115>> >>, << <<122>> >>,
                 << <<116>>, <<117>> >>, << <<122>>, <<112>> >> } }

\* The line "p"
BaseLine == Line_new_from_line(SonnetDict, << <<112>> >>)

\* The line "q"
OtherRhymeLine == Line_new_from_line(SonnetDict, << <<113>> >>)

\* The stanzas for which analyze_one_file_to_terminal calls the classifier
\* have 10 to 16 lines.
MinClassifiedLines == 10

MaxClassifiedLines == 16

\* The lines of a long stanza that differ from one stanza to another
\* (1-based): the two lines of the first rhyme pair and the last line.
VariedLines == {1, 3, 14}

\* Stanzas of 10, 14 and 16 lines "p" with any lines in the varied places.
VariedSonnets ==
    { [i \in 1..n |-> IF i \in VariedLines THEN c[i] ELSE BaseLine] :
        n \in {MinClassifiedLines, SonnetLines, MaxClassifiedLines},
        c \in [VariedLines -> SonnetLineKinds] }

\* A sonnet of lines "p" with one line replaced by "q".
OneWordReplaced ==
    { [i \in 1..SonnetLines |-> IF i = k THEN OtherRhymeLine ELSE BaseLine] :
        k \in 1..SonnetLines }

AnalyzeStanzas == Stanzas \cup VariedSonnets \cup OneWordReplaced

\* `let mut best = None; let mut best_errors = vec![];`
AnalyzeVarsInit ==
    /\ best = None
    /\ best_errors = <<>>
    /\ verdict = None
    /\ outcome = "looping"

\* let iter = s.interpretations(), of a stanza of get_stanzas_from_text
AnalyzeInit ==
    /\ stanza \in AnalyzeStanzas
    /\ filter = TRUE
    /\ indices = StanzaView_new(stanza)
    /\ first_run = TRUE
    /\ ret = "fresh"
    /\ exhausted = FALSE
    /\ advanced = FALSE
    /\ yielded = <<>>
    /\ hint = Unset
    /\ AnalyzeVarsInit

\* UpdateBest that keeps the view classified last.
UpdateBest_KeepsLast(b, b_errors, i, result) ==
    IF result.ok
    THEN [best |-> Some(i), best_errors |-> <<>>]
    ELSE [best |-> Some(i), best_errors |-> sort_errors(result.errors)]

\* The match on the result of is_shakespearean_sonnet(&i) in the loop body.
UpdateBest(b, b_errors, i, result) ==
    IF result.ok
    THEN [best |-> Some(i), best_errors |-> <<>>]
    ELSE LET v == sort_errors(result.errors)
         IN  IF ~b.some \/ Len(v) < Len(b_errors)
             THEN [best |-> Some(i), best_errors |-> v]
             ELSE [best |-> b, best_errors |-> b_errors]

\* One turn of `for i in iter`: next (as in NextFirst and NextAdvance) and,
\* for a view, the loop body; the first turn follows the call of size_hint.
ForEachInterpretation ==
    /\ outcome = "looping"
    /\ ret # "none"
    /\ LET r == IF first_run
                THEN [lines |-> indices, some |-> TRUE]
                ELSE AdvanceLines(stanza, indices, filter, 1)
       IN  /\ indices' = r.lines
           /\ ret' = IF r.some THEN "some" ELSE "none"
           /\ exhausted' = ~r.some
           /\ yielded' = IF r.some THEN Append(yielded, r.lines) ELSE yielded
           /\ IF /\ r.some
                 /\ Len(stanza) >= MinClassifiedLines
                 /\ Len(stanza) <= MaxClassifiedLines
              THEN LET result == is_shakespearean_sonnet(stanza, r.lines)
                       u      == UpdateBest(best, best_errors, r.lines, result)
                   IN  /\ verdict' = Some(result)
                       /\ best' = u.best
                       /\ best_errors' = u.best_errors
              ELSE UNCHANGED <<verdict, best, best_errors>>
    /\ first_run' = FALSE
    /\ advanced' = (advanced \/ ~first_run)
    /\ hint' = IF first_run THEN size_hint(stanza, filter) ELSE hint
    /\ UNCHANGED <<stanza, filter, outcome, otherThanAnalyze>>

\* After the loop: `&best.unwrap()` and the errors or "It's valid!".
ReportBest ==
    /\ outcome = "looping"
    /\ ret = "none"
    /\ outcome' = IF best.some THEN "reported" ELSE "panicked"
    /\ UNCHANGED <<iterVars, best, best_errors, verdict, otherThanAnalyze>>

----------------------------------------------------------------------------
(* snippet.rs: get_stanzas_from_text *)

\* str::trim
RECURSIVE trim_end(_)
trim_end(str) ==
    IF str # <<>> /\ IsSpace(str[Len(str)]) THEN trim_end(SubSeq(str, 1, Len(str) - 1))
    ELSE str

trim(str) == trim_end(Drop(str, RunLen(str, {9, 10, 11, 12, 13, 32})))

\* The raw lines of the texts: "", " #c", "a" and " b ".
TextLines == { <<>>, <<32, 35, 99>>, <<97>>, <<32, 98, 32>> }

Texts == UNION { [1..n -> TextLines] : n \in 0..MaxLines }

\* Line::new_from_line(raw, line_num, index, dict)
Line_new(raw, num, index, dict) ==
    [raw_text |-> raw, num |-> num, index |-> index,
     tokens |-> Line_new_from_line(dict, split_whitespace(raw))]

\* `let mut output = vec![]; let mut stanza = Stanza::new();
\*  let mut candidate_title = None;` before any text is read
TextIdle ==
    /\ input = <<>>
    /\ line_num = 0
    /\ cur_stanza = <<>>
    /\ candidate_title = None
    /\ output = <<>>
    /\ returned = FALSE

\* get_stanzas_from_text(input, dict), before the loop
TextInit ==
    /\ input \in Texts
    /\ line_num = 0
    /\ cur_stanza = <<>>
    /\ candidate_title = None
    /\ output = <<>>
    /\ returned = FALSE

\* The line the loop is about to read, trimmed.
NextLine == trim(input[line_num + 1])

InLoop == ~returned /\ line_num < Len(input)

\* SkipComment that ends the current block as a blank line does.
SkipComment_EndsBlock ==
    /\ InLoop
    /\ starts_with(NextLine, <<35>>)
    /\ line_num' = line_num + 1
    /\ cur_stanza' = <<>>
    /\ UNCHANGED <<input, candidate_title, output, returned, otherThanText>>

\* A turn of the loop for a comment line: `continue`.
SkipComment ==
    /\ InLoop
    /\ starts_with(NextLine, <<35>>)
    /\ line_num' = line_num + 1
    /\ UNCHANGED <<input, cur_stanza, candidate_title, output, returned, otherThanText>>

\* BlankLine that leaves the candidate title in place after using it.
BlankLine_KeepsTitle ==
    /\ InLoop
    /\ ~starts_with(NextLine, <<35>>)
    /\ NextLine = <<>>
    /\ line_num' = line_num + 1
    /\ IF Len(cur_stanza) = 0
       THEN UNCHANGED <<cur_stanza, candidate_title, output>>
       ELSE IF Len(cur_stanza) = 1
       THEN /\ candidate_title' = Some(cur_stanza[1].raw_text)
            /\ cur_stanza' = <<>>
            /\ UNCHANGED output
       ELSE /\ output' = Append(output, [lines |-> cur_stanza, title |-> candidate_title])
            /\ UNCHANGED candidate_title
            /\ cur_stanza' = <<>>
    /\ UNCHANGED <<input, returned, otherThanText>>

\* A turn of the loop for an empty line: the current stanza is finalized.
BlankLine ==
    /\ InLoop
    /\ ~starts_with(NextLine, <<35>>)
    /\ NextLine = <<>>
    /\ line_num' = line_num + 1
    /\ IF Len(cur_stanza) = 0
       THEN UNCHANGED <<cur_stanza, candidate_title, output>>
       ELSE IF Len(cur_stanza) = 1
       THEN /\ candidate_title' = Some(cur_stanza[1].raw_text)
            /\ cur_stanza' = <<>>
            /\ UNCHANGED output
       ELSE /\ output' = Append(output, [lines |-> cur_stanza, title |-> candidate_title])
            /\ candidate_title' = None
            /\ cur_stanza' = <<>>
    /\ UNCHANGED <<input, returned, otherThanText>>

\* A turn of the loop for any other line: the line joins the current stanza.
TextLine ==
    /\ InLoop
    /\ ~starts_with(NextLine, <<35>>)
    /\ NextLine # <<>>
    /\ line_num' = line_num + 1
    /\ cur_stanza' = Append(cur_stanza,
                            Line_new(NextLine, line_num + 1, Len(cur_stanza), Dict))
    /\ UNCHANGED <<input, candidate_title, output, returned, otherThanText>>

\* Return that keeps a last stanza of one line too.
Return_KeepsOneLine ==
    /\ ~returned
    /\ line_num = Len(input)
    /\ output' = IF Len(cur_stanza) >= 1
                 THEN Append(output, [lines |-> cur_stanza, title |-> candidate_title])
                 ELSE output
    /\ returned' = TRUE
    /\ UNCHANGED <<input, line_num, cur_stanza, candidate_title, otherThanText>>

\* After the loop: the last stanza is finalized and output is returned.
Return ==
    /\ ~returned
    /\ line_num = Len(input)
    /\ output' = IF Len(cur_stanza) >= MinStanzaLines
                 THEN Append(output, [lines |-> cur_stanza, title |-> candidate_title])
                 ELSE output
    /\ returned' = TRUE
    /\ UNCHANGED <<input, line_num, cur_stanza, candidate_title, otherThanText>>

----------------------------------------------------------------------------
(* snippet.rs: Line::new_from_line, the Token of one word *)

\* The characters of the words: 'a', 'M', '.', '-', ',', the curly
\* apostrophe and the ASCII apostrophe.
TermChars == {97, 77, 46, 45, 44, 8217, 39}

Terms == UNION { [1..n -> TermChars] : n \in 1..MaxWordLen }

\* The lines of a lexicon: "a AH0", "a.m. EY2 EH1 M" and "a. EY1".
NormLexicon ==
    << <<97, 32, 65, 72, 48>>,
       <<97, 46, 109, 46, 32, 69, 89, 50, 32, 69, 72, 49, 32, 77>>,
       <<97, 46, 32, 69, 89, 49>> >>

NormFiles == { SubSeq(NormLexicon, 1, n) : n \in 1..Len(NormLexicon) }

\* No word has been read.
TokenIdle ==
    /\ raw_word = <<>>
    /\ token = None
    /\ passes = 0

\* A word of a line, before the dictionary is loaded.
TokenInit ==
    /\ raw_word \in Terms
    /\ token = None
    /\ passes = 0

\* DictionaryImpl::new_from_cmudict_file(path), of a file of the lexicon
LoadLexicon ==
    \E file \in NormFiles :
        /\ reverse_list = <<>>
        /\ ~token.some
        /\ LET d == new_from_cmudict_file(file)
           IN  /\ entries' = d.entries
               /\ reverse_list' = d.reverse_list
        /\ UNCHANGED <<tokenVars, otherThanToken>>

\* The Token of a word: the body of the loop of Line::new_from_line.
Token_new(dict, word) ==
    LET normalized_text == normalize_for_lookup(word)
    IN  [text |-> normalized_text, entry |-> lookup(dict, normalized_text)]

\* A turn of the loop of Line::new_from_line for the word.
Tokenize ==
    /\ reverse_list # <<>>
    /\ ~token.some
    /\ token' = Some(Token_new(Dict, raw_word))
    /\ passes' = 1
    /\ UNCHANGED <<raw_word, entries, reverse_list, otherThanToken>>

\* A turn of the loop for a word that is the text of the Token: the text
\* is normalized again.
TokenizeText ==
    /\ token.some
    /\ passes = 1
    /\ raw_word' = token.v.text
    /\ token' = Some(Token_new(Dict, token.v.text))
    /\ passes' = 2
    /\ UNCHANGED <<entries, reverse_list, otherThanToken>>

----------------------------------------------------------------------------
(* Specifications *)

\* No iterator: the values of the iterator's variables while only the
\* dictionary is used.
IterIdle ==
    /\ stanza = <<>>
    /\ filter = TRUE
    /\ indices = <<>>
    /\ first_run = TRUE
    /\ ret = "fresh"
    /\ exhausted = FALSE
    /\ advanced = FALSE
    /\ yielded = <<>>
    /\ hint = Unset

\* An iterator over a stanza; the dictionary is left alone.
Init == IterInit /\ DictInit /\ AnalyzeVarsInit /\ TextIdle /\ TokenIdle

Next == NextFirst \/ NextAdvance \/ SizeHint

Spec == Init /\ [][Next]_vars

\* A dictionary under insertions.
DictSpecInit == IterIdle /\ DictInit /\ AnalyzeVarsInit /\ TextIdle /\ TokenIdle

DictNext == Insert \/ InsertRaw \/ InsertAll \/ NewFromCmudictFile \/ Similar

DictSpec == DictSpecInit /\ [][DictNext]_vars

\* The analysis of one stanza of a file.
AnalyzeSpecInit == AnalyzeInit /\ DictInit /\ TextIdle /\ TokenIdle

AnalyzeNext == ForEachInterpretation \/ ReportBest

AnalyzeSpec == AnalyzeSpecInit /\ [][AnalyzeNext]_vars

\* get_stanzas_from_text over a text, with an empty dictionary.
TextSpecInit == TextInit /\ IterIdle /\ DictInit /\ AnalyzeVarsInit /\ TokenIdle

TextNext == SkipComment \/ BlankLine \/ TextLine \/ Return

TextSpec == TextSpecInit /\ [][TextNext]_vars

\* The tokenization of one word over a loaded lexicon.
TokenSpecInit == TokenInit /\ IterIdle /\ DictInit /\ AnalyzeVarsInit /\ TextIdle

TokenNext == LoadLexicon \/ Tokenize \/ TokenizeText

TokenSpec == TokenSpecInit /\ [][TokenNext]_vars

----------------------------------------------------------------------------
(* Properties of the interpretation iterator *)

\* The number of values the index of a token can take: its variant count, or
\* 1 for a token without an entry.
Range(t) == IF t.some THEN Len(t.v) ELSE 1

\* All variants of the token have one syllable count.
SameCount(t) == Cardinality({ t.v[k].num_syllables : k \in 1..Len(t.v) }) = 1

\* The index vectors of a line: every token within its range.
RECURSIVE LineViews(_)
LineViews(l) ==
    IF l = <<>> THEN { <<>> }
    ELSE { <<x>> \o rest : x \in 0..(Range(Head(l)) - 1), rest \in LineViews(Tail(l)) }

\* The Cartesian product over every token's variant-index range.
RECURSIVE AllViews(_)
AllViews(s) ==
    IF s = <<>> THEN { <<>> }
    ELSE { <<g>> \o rest : g \in LineViews(Head(s)), rest \in AllViews(Tail(s)) }

RECURSIVE RangeProductLine(_, _)
RangeProductLine(l, k) ==
    IF k > Len(l) THEN 1 ELSE Range(l[k]) * RangeProductLine(l, k + 1)

RECURSIVE RangeProduct(_, _)
RangeProduct(s, i) ==
    IF i > Len(s) THEN 1 ELSE RangeProductLine(s[i], 1) * RangeProduct(s, i + 1)

Yielded == { yielded[n] : n \in 1..Len(yielded) }

\* The positions (line, token) of the stanza.
Positions == { <<i, k>> \in (1..Len(stanza)) \X (1..MaxTokens) : k <= Len(stanza[i]) }

Interior(p) == p[2] < Len(stanza[p[1]])

Tok(p) == stanza[p[1]][p[2]]

\* yielded is complete when next has returned None (ret = "none"), and stays
\* as it is from then on.

\* C1: with filter = false, the views yielded up to the first None are the
\* whole Cartesian product of the variant-index ranges, each exactly once, so
\* their number is the product of the variant counts of the known tokens.
C1_UnfilteredIsCartesianProduct ==
    (~filter /\ ret = "none") =>
        /\ Yielded = AllViews(stanza)
        /\ \A m, n \in 1..Len(yielded) : m # n => yielded[m] # yielded[n]
        /\ Len(yielded) = RangeProduct(stanza, 1)

C1_Witness ==
    /\ ~filter /\ ret = "none"
    /\ Len(yielded) >= 6
    /\ \E p \in Positions : Interior(p) /\ Tok(p).some /\ Range(Tok(p)) = 2 /\ SameCount(Tok(p))
    /\ \E p \in Positions : ~Tok(p).some

\* C2: with filter = true, a token's index is non-zero in some yielded view
\* iff the token has two or more variants and is the last of its line or has
\* variants of differing syllable counts; such a token takes every index.
C2_PrunedTokensStayAtZero ==
    (filter /\ ret = "none") =>
        \A p \in Positions :
            LET seen == { w[p[1]][p[2]] : w \in Yielded }
                free == /\ Tok(p).some
                        /\ Len(Tok(p).v) >= 2
                        /\ (~Interior(p) \/ ~SameCount(Tok(p)))
            IN  /\ (seen # {0}) <=> free
                /\ free => seen = 0..(Len(Tok(p).v) - 1)

C2_Witness ==
    /\ filter /\ ret = "none"
    /\ \E p \in Positions : Interior(p) /\ Tok(p).some /\ Range(Tok(p)) = 2 /\ SameCount(Tok(p))
    /\ \E p \in Positions : ~Interior(p) /\ Tok(p).some /\ Range(Tok(p)) = 2 /\ SameCount(Tok(p))
    /\ Len(yielded) >= 2

\* What the classifiers read of a line of a view: its syllable count
\* (LineView::num_syllables) and the entry selected for its last token
\* (LineView::last_entry).
Observed(s, w) ==
    [i \in 1..Len(s) |-> <<num_syllables(s[i], w[i]), w[i][Len(w[i])]>>]

C4_ExhaustedStaysExhausted == exhausted => ret = "none"

\* C5: the first view next returns is the all-zero view, and it is returned
\* before any line is advanced, also when no token can advance.
C5_FirstViewIsAllZero ==
    /\ first_run => (yielded = <<>> /\ ~advanced)
    /\ ~first_run =>
          /\ Len(yielded) >= 1
          /\ \A p \in Positions : yielded[1][p[1]][p[2]] = 0
          /\ ~advanced => (yielded = <<indices>> /\ ret = "some")

C5_Witness ==
    /\ ~first_run /\ ~advanced
    /\ Len(yielded) = 1
    /\ RangeProduct(stanza, 1) > 1

\* C6: the upper bound of size_hint is the number of views the iterator
\* yields before its first None, whenever size_hint is called.
C6_SizeHintIsCount ==
    (ret = "none" /\ hint # Unset) => hint = Len(yielded)

C6_Witness ==
    /\ ret = "none" /\ hint # Unset /\ filter
    /\ hint >= 4
    /\ hint < RangeProduct(stanza, 1)
    /\ \E p \in Positions : ~Interior(p) /\ Tok(p).some /\ Range(Tok(p)) = 2 /\ SameCount(Tok(p))

\* The estimates of the stanza without and with pruning, the one of the
\* iterator's own filter setting being the value size_hint returned.
HintUnpruned == IF filter THEN size_hint(stanza, FALSE) ELSE hint

HintPruned == IF filter THEN hint ELSE size_hint(stanza, TRUE)

\* C7 as stated: the estimate strictly decreases whenever a line has an
\* interior token whose variants all have the same syllable count.
C7_StrictDecreaseAnySameCount ==
    (hint # Unset /\ \E p \in Positions : Interior(p) /\ Tok(p).some /\ SameCount(Tok(p)))
        => HintPruned < HintUnpruned

\* C7 amended: the estimate strictly decreases whenever a line has an interior
\* token with two or more variants that all have the same syllable count.
C7_StrictDecreaseSeveralVariants ==
    (hint # Unset /\ \E p \in Positions :
        Interior(p) /\ Tok(p).some /\ Len(Tok(p).v) >= 2 /\ SameCount(Tok(p)))
        => HintPruned < HintUnpruned

C7_Witness ==
    /\ hint # Unset /\ filter
    /\ \E p \in Positions :
        Interior(p) /\ Tok(p).some /\ Len(Tok(p).v) >= 2 /\ SameCount(Tok(p))
    /\ hint >= 2
    /\ hint < size_hint(stanza, FALSE)

\* The number of values the index of the token at p takes in the
\* enumeration: 1 for a token that is never advanced.
Radix(p) ==
    IF /\ Tok(p).some
       /\ Len(Tok(p).v) >= 2
       /\ (~filter \/ ~Interior(p) \/ ~SameCount(Tok(p)))
    THEN Len(Tok(p).v)
    ELSE 1

\* The positions less significant than p: those of the lines before its
\* line and those after it on its line.
LessSignificant(p) ==
    { q \in Positions : q[1] < p[1] \/ (q[1] = p[1] /\ q[2] > p[2]) }

RECURSIVE RadixProduct(_)
RadixProduct(ps) ==
    IF ps = {} THEN 1
    ELSE LET q == CHOOSE x \in ps : TRUE
         IN  Radix(q) * RadixProduct(ps \ {q})

\* C26: the k-th view yielded is the k-th value of the counter whose least
\* significant place is the last token of the first line and whose most
\* significant place is the first token of the last line, and the views
\* end when the counter has taken every value.
C26_OdometerOrder ==
    ret = "none" =>
        LET radix  == [p \in Positions |-> Radix(p)]
            weight == [p \in Positions |-> RadixProduct(LessSignificant(p))]
        IN  /\ \A n \in 1..Len(yielded) : \A p \in Positions :
                  yielded[n][p[1]][p[2]] = ((n - 1) \div weight[p]) % radix[p]
            /\ Len(yielded) = RadixProduct(Positions)

\* A carry within a line and a carry from the first line into the second.
C26_Witness ==
    /\ ret = "none"
    /\ Len(yielded) = 8
    /\ \E i \in 1..Len(stanza) : Len(stanza[i]) = 2 /\ Radix(<<i, 1>>) = 2 /\ Radix(<<i, 2>>) = 2
    /\ yielded[2][1] # yielded[1][1]
    /\ yielded[2][2] = yielded[1][2]

\* Every index of the view selects an entry of its token: 0 for a token
\* without an entry, and less than the number of variants otherwise.
InRange(w) ==
    \A p \in Positions :
        /\ w[p[1]][p[2]] >= 0
        /\ w[p[1]][p[2]] < Range(Tok(p))

\* C29: the indices of the iterator's view and of every yielded view stay
\* within the entry lists of their tokens, and all indices of the
\* iterator's view are 0 when next has returned None.  The views are
\* yielded one at a time, so in each state the last one is looked at.
C29_IndicesInRange ==
    /\ InRange(indices)
    /\ yielded # <<>> => InRange(yielded[Len(yielded)])
    /\ ret = "none" => \A p \in Positions : indices[p[1]][p[2]] = 0

\* After None, with views that selected the last variant of a token of
\* three variants and had an unknown token.
C29_Witness ==
    /\ ret = "none"
    /\ \E p \in Positions : ~Tok(p).some
    /\ \E p \in Positions : Range(Tok(p)) = 3 /\ \E w \in Yielded : w[p[1]][p[2]] = 2

----------------------------------------------------------------------------
(* Properties of the dictionary *)

\* The entries of the primary map, as (word, position in the word's list).
EntrySlots ==
    { <<w, k>> \in (DOMAIN entries) \X (1..MaxEntries + 1) : k <= Len(entries[w]) }

EntryAt(slot) == entries[slot[1]][slot[2]]

RowIndices == 1..Len(reverse_list)

\* C8: every (word, variant) pair of the primary map has exactly one row in
\* the reverse list, every row names exactly one entry of the primary map,
\* and so lookup_variant finds an entry for every row.
C8_ReverseListIsOneToOne ==
    /\ \A slot \in EntrySlots :
          Cardinality({ i \in RowIndices :
                          /\ reverse_list[i].word = slot[1]
                          /\ reverse_list[i].variant = EntryAt(slot).variant }) = 1
    /\ \A i \in RowIndices :
          /\ Cardinality({ slot \in EntrySlots :
                             /\ slot[1] = reverse_list[i].word
                             /\ EntryAt(slot).variant = reverse_list[i].variant }) = 1
          /\ lookup_variant(Dict, reverse_list[i].word, reverse_list[i].variant).some

\* C9: after every insertion operation the reverse list is sorted ascending
\* by similarity key.
C9_ReverseListSorted ==
    \A i \in RowIndices :
        i < Len(reverse_list) => StrCmp(reverse_list[i].key, reverse_list[i + 1].key) <= 0

\* Three rows, two of them of one word whose entries were inserted in the
\* order opposite to that of their keys.
C9_Witness ==
    /\ Len(reverse_list) = 3
    /\ \E slot \in EntrySlots :
          /\ slot[2] > 1
          /\ StrCmp(similarity_key(EntryAt(<<slot[1], slot[2] - 1>>)),
                    similarity_key(EntryAt(slot))) > 0

\* C10: for an entry v of a query word and an entry e of another word, the
\* prefix scan of similar accepts e's row iff rhymes_with holds of v and e.
C10_ScanAcceptsExactlyRhymes ==
    \A vs, es \in EntrySlots :
        vs[1] # es[1] =>
            (starts_with(similarity_key(EntryAt(es)), similarity_prefix(EntryAt(vs), 1))
                <=> Entry_rhymes_with(EntryAt(vs), EntryAt(es)))

\* The entries of the primary map.
EntriesOfMap ==
    UNION { { entries[key][k] : k \in 1..Len(entries[key]) } : key \in DOMAIN entries }

\* The phoneme carries a stress digit.
HasStressDigit(ph) == \E i \in 1..Len(ph) : ph[i] \in 48..57

StressedPhonemes(e) ==
    { k \in 1..Len(e.phonemes) : HasStressDigit(e.phonemes[k]) }

\* C25: the syllable count of every entry of the dictionary is the number
\* of its phonemes that carry a stress digit.
C25_SyllablesAreStressedPhonemes ==
    \A e \in EntriesOfMap : e.syllables = Cardinality(StressedPhonemes(e))

\* A dictionary with an entry of three phonemes and two syllables and one
\* of one phoneme and no syllable.
C25_Witness ==
    /\ \E e \in EntriesOfMap : Len(e.phonemes) = 3 /\ e.syllables = 2
    /\ \E e \in EntriesOfMap : Len(e.phonemes) = 1 /\ e.syllables = 0

----------------------------------------------------------------------------
(* Properties of similar *)

\* The pairs (query variant k, row i) of the claim: the row's word is not the
\* query and its key starts with the last-syllable key of the variant.
Selected ==
    IF query.some /\ query.v \in DOMAIN entries
    THEN { p \in (1..Len(entries[query.v])) \X RowIndices :
             /\ reverse_list[p[2]].word # query.v
             /\ starts_with(reverse_list[p[2]].key,
                            last_n_syllables(entries[query.v][p[1]].phonemes, 1)) }
    ELSE {}

WordIndices == 1..Len(words)

ResultWords == { words[n].word : n \in WordIndices }

\* No (word, variant) pair was inserted twice.
NoDuplicatePairs ==
    \A i, j \in RowIndices :
        (reverse_list[i].word = reverse_list[j].word
            /\ reverse_list[i].variant = reverse_list[j].variant) => i = j

\* C11: similar(query) has exactly one row for each pair (query variant, row
\* of the reverse list) whose row is of another word and has a key starting
\* with the variant's last-syllable key; nothing is deduplicated.
C11_OneRowPerSelectedPair ==
    query.some =>
        /\ Len(words) = Cardinality(Selected)
        /\ \A w \in ResultWords \cup DOMAIN entries :
              Cardinality({ n \in WordIndices : words[n].word = w })
                = Cardinality({ p \in Selected : reverse_list[p[2]].word = w })

\* A row selected by two variants of the query, in a dictionary without
\* duplicates, so that its word is twice among the results.
C11_Witness ==
    /\ query.some /\ NoDuplicatePairs
    /\ \E p1, p2 \in Selected : p1[1] # p2[1] /\ p1[2] = p2[2]
    /\ \E w \in ResultWords : Cardinality({ n \in WordIndices : words[n].word = w }) = 2

\* C12: no row of similar(query) has the query as its word, and a word of
\* another spelling with the phonemes of a variant of the query is a result.
C12_SelfExcludedHomonymsKept ==
    query.some =>
        /\ \A n \in WordIndices : words[n].word # query.v
        /\ \A vs, es \in EntrySlots :
              (vs[1] = query.v /\ es[1] # query.v
                  /\ EntryAt(vs).phonemes = EntryAt(es).phonemes)
                  => es[1] \in ResultWords

\* The query has two entries and a homonym of another spelling.
C12_Witness ==
    /\ query.some /\ query.v \in DOMAIN entries /\ NoDuplicatePairs
    /\ Len(entries[query.v]) = 2
    /\ \E vs, es \in EntrySlots :
          /\ vs[1] = query.v /\ es[1] # query.v
          /\ EntryAt(vs).phonemes = EntryAt(es).phonemes
          /\ es[1] \in ResultWords

\* The length of the longest common suffix of two phoneme lists.
CommonSuffixLen(a, b) ==
    LET lens == { k \in 0..Len(a) :
                    /\ k <= Len(b)
                    /\ SubSeq(a, Len(a) - k + 1, Len(a)) = SubSeq(b, Len(b) - k + 1, Len(b)) }
    IN  CHOOSE k \in lens : \A j \in lens : j <= k

\* The entry a row of the reverse list was made from.
RowEntry(i) ==
    LET es == entries[reverse_list[i].word]
    IN  es[CHOOSE k \in 1..Len(es) : similarity_key(es[k]) = reverse_list[i].key]

\* The score the claim gives the pair p.
PairScore(p) ==
    CommonSuffixLen(entries[query.v][p[1]].phonemes, RowEntry(p[2]).phonemes)

WordsOrdered ==
    \A n \in WordIndices :
        n < Len(words) =>
            \/ words[n].score > words[n + 1].score
            \/ /\ words[n].score = words[n + 1].score
               /\ StrCmp(words[n].word, words[n + 1].word) <= 0

\* C13: the rows of similar(query) are in descending order of score and, for
\* equal scores, ascending order of word, and the rows of a word carry the
\* common-suffix lengths of the selected pairs of that word.
C13_OrderedByCommonSuffix ==
    query.some =>
        /\ WordsOrdered
        /\ \A w \in ResultWords :
           \A sc \in { words[n].score : n \in WordIndices } \cup { PairScore(p) : p \in Selected } :
              Cardinality({ n \in WordIndices : words[n].word = w /\ words[n].score = sc })
                = Cardinality({ p \in Selected :
                                  reverse_list[p[2]].word = w /\ PairScore(p) = sc })

\* C14: no dictionary operation panics on a malformed lexicon line.
C14_MalformedLineIsNoPanic == ~panicked

----------------------------------------------------------------------------
(* Properties of the analysis of a stanza *)

\* C15: the analysis of a stanza ends with a report, never with a panic.
C15_AnalysisNeverPanics == outcome # "panicked"

\* The errors of the classifier for a view of the stanza.
Errors(w) == is_shakespearean_sonnet(stanza, w).errors

ErrorIndices(es) == 1..Len(es)

\* The two lists hold the same errors, each as many times.
SameErrors(es, fs) ==
    /\ Len(es) = Len(fs)
    /\ \A n \in ErrorIndices(es) :
          Cardinality({ m \in ErrorIndices(es) : es[m] = es[n] })
            = Cardinality({ m \in ErrorIndices(fs) : fs[m] = es[n] })

\* C16: the view reported as best is one of the enumerated views, none of
\* which has fewer errors, and the errors reported are the errors of that
\* view in ascending order.
C16_BestHasFewestErrors ==
    outcome = "reported" =>
        /\ best.some
        /\ best.v \in Yielded
        /\ \A w \in Yielded : Len(Errors(best.v)) <= Len(Errors(w))
        /\ SameErrors(best_errors, Errors(best.v))
        /\ \A n \in ErrorIndices(best_errors) :
              n < Len(best_errors) =>
                  ClassifyError_cmp(best_errors[n], best_errors[n + 1]) <= 0

\* The best of four or more views is neither the first nor the last of them
\* and has errors, fewer than another view.
C16_Witness ==
    /\ outcome = "reported"
    /\ Len(yielded) >= 4
    /\ best.v # yielded[1]
    /\ best.v # yielded[Len(yielded)]
    /\ best_errors # <<>>
    /\ \E w \in Yielded : Len(Errors(w)) > Len(best_errors)

\* The view classified last is the view of the iterator.
Classified ==
    /\ verdict.some
    /\ ret = "some"
    /\ Len(stanza) = SonnetLines

\* The phonemes of an entry from its last vowel on, or all of them.
FinalSyllable(e) ==
    LET vowels == { k \in 1..Len(e.phonemes) : is_vowel(e.phonemes[k]) }
    IN  IF vowels = {} THEN e.phonemes
        ELSE SubSeq(e.phonemes, CHOOSE k \in vowels : \A j \in vowels : j <= k,
                    Len(e.phonemes))

\* The last token of line i (1-based) and its selected entry.
LastToken(i) == stanza[i][Len(stanza[i])]

LastSelected(i) == LastToken(i).v[indices[i][Len(indices[i])] + 1]

\* The pair of rhyming_lines does not rhyme: both last tokens have entries,
\* whose final syllables differ.
Rejected(pair) ==
    /\ LastToken(pair[1] + 1).some
    /\ LastToken(pair[2] + 1).some
    /\ FinalSyllable(LastSelected(pair[1] + 1)) # FinalSyllable(LastSelected(pair[2] + 1))

\* The start of the message of a pair: "lines {a} and {b}: the words "
PairPrefix(pair) ==
    Txt_Lines \o Decimal(pair[1] + 1) \o Txt_And \o Decimal(pair[2] + 1) \o Txt_TheWords

\* The positions in the verdict of the errors of a pair.
PairErrors(pair) ==
    { n \in ErrorIndices(verdict.v.errors) :
        starts_with(verdict.v.errors[n].msg, PairPrefix(pair)) }

Pairs == { rhyming_lines[k] : k \in 1..Len(rhyming_lines) }

\* C19: a pair of the rhyme scheme has errors iff the last tokens of both
\* lines have entries whose final syllables differ; its errors are then two
\* LineErrors, one for each line of the pair, whatever the other pairs do.
C19_PairRejectedIffFinalSyllablesDiffer ==
    Classified =>
        /\ \A pair \in Pairs :
              IF Rejected(pair)
              THEN /\ Cardinality(PairErrors(pair)) = 2
                   /\ \A x \in {pair[1], pair[2]} :
                         \E n \in PairErrors(pair) :
                             /\ verdict.v.errors[n].kind = "LineError"
                             /\ verdict.v.errors[n].index = x
              ELSE PairErrors(pair) = {}
        /\ \A n \in ErrorIndices(verdict.v.errors) :
              starts_with(verdict.v.errors[n].msg, Txt_Lines)
                  => \E pair \in Pairs : n \in PairErrors(pair)

\* One pair is rejected, one is accepted for an unknown last word and one
\* because it rhymes.
C19_Witness ==
    /\ Classified
    /\ \E pair \in Pairs : Rejected(pair) /\ Cardinality(PairErrors(pair)) = 2
    /\ \E pair \in Pairs : ~LastToken(pair[2] + 1).some /\ PairErrors(pair) = {}
    /\ \E pair \in Pairs : ~Rejected(pair) /\ LastToken(pair[1] + 1).some
                               /\ LastToken(pair[2] + 1).some

\* The positions in the verdict of the syllable errors of line i (1-based).
SyllableErrorsOf(i) ==
    { n \in ErrorIndices(verdict.v.errors) :
        /\ verdict.v.errors[n].kind = "LineError"
        /\ verdict.v.errors[n].index = i - 1
        /\ starts_with(verdict.v.errors[n].msg, Txt_Line) }

\* The syllables of the words of line i that have an entry.
KnownSyllables(i) == num_syllables(stanza[i], indices[i])

HasUnknown(i) == \E k \in 1..Len(stanza[i]) : ~stanza[i][k].some

\* C20: a line without unknown words has a syllable error iff its count
\* differs from the expected one, and a line with an unknown word iff the
\* syllables of its known words reach the expected count.
C20_SyllableCheck ==
    Classified =>
        \A i \in 1..Len(stanza) :
            /\ Cardinality(SyllableErrorsOf(i)) <= 1
            /\ (SyllableErrorsOf(i) # {}) <=>
                  IF HasUnknown(i)
                  THEN KnownSyllables(i) >= SonnetSyllables
                  ELSE KnownSyllables(i) # SonnetSyllables

\* The four cases in one view: a line of unknown words that is accepted, one
\* that reaches the count, and known lines with and without the count.
C20_Witness ==
    /\ Classified
    /\ \E i \in 1..Len(stanza) :
          HasUnknown(i) /\ KnownSyllables(i) < SonnetSyllables /\ SyllableErrorsOf(i) = {}
    /\ \E i \in 1..Len(stanza) :
          HasUnknown(i) /\ KnownSyllables(i) = SonnetSyllables /\ SyllableErrorsOf(i) # {}
    /\ \E i \in 1..Len(stanza) :
          ~HasUnknown(i) /\ KnownSyllables(i) < SonnetSyllables /\ SyllableErrorsOf(i) # {}
    /\ \E i \in 1..Len(stanza) :
          ~HasUnknown(i) /\ KnownSyllables(i) = SonnetSyllables /\ SyllableErrorsOf(i) = {}

\* Line i (1-based) fails the syllable check for the expected count.
FailsSyllables(i, expected) ==
    IF HasUnknown(i) THEN KnownSyllables(i) >= expected
    ELSE KnownSyllables(i) # expected

\* The number of checks that line i fails: its syllable check and the
\* checks of the pairs it is in.
FailedChecksOf(i) ==
    (IF FailsSyllables(i, SonnetSyllables) THEN 1 ELSE 0)
    + Cardinality({ pair \in Pairs : Rejected(pair) /\ i - 1 \in {pair[1], pair[2]} })

\* The errors of a list that refer to line i (1-based).
ErrorsOfLine(es, i) ==
    { n \in ErrorIndices(es) : es[n].kind = "LineError" /\ es[n].index = i - 1 }

FailedLines == { i \in 1..Len(stanza) : FailsSyllables(i, SonnetSyllables) }

FailedPairs == { pair \in Pairs : Rejected(pair) }

\* C27: for a view with the required number of lines the errors are one
\* LineError for each line that fails its syllable check and two for each
\* pair that does not rhyme, whatever failed before, and the result is Ok
\* iff no check failed.
C27_EveryCheckIsEvaluated ==
    /\ Classified =>
          LET es == verdict.v.errors
          IN  /\ Len(es) = Cardinality(FailedLines) + 2 * Cardinality(FailedPairs)
              /\ \A i \in 1..Len(stanza) :
                    Cardinality(ErrorsOfLine(es, i)) = FailedChecksOf(i)
              /\ verdict.v.ok <=> (FailedLines = {} /\ FailedPairs = {})
    /\ (ret = "some" /\ Len(stanza) = Len(HaikuSyllables)) =>
          LET r == is_haiku(stanza, indices)
          IN  /\ Len(r.errors) = Cardinality({ i \in 1..Len(stanza) :
                                                 FailsSyllables(i, HaikuSyllables[i]) })
              /\ \A i \in 1..Len(stanza) :
                    Cardinality(ErrorsOfLine(r.errors, i))
                      = IF FailsSyllables(i, HaikuSyllables[i]) THEN 1 ELSE 0
              /\ r.ok <=> (r.errors = <<>>)

\* Two lines fail the syllable check and a pair after them does not rhyme.
C27_Witness ==
    /\ Classified
    /\ Cardinality(FailedLines) >= 2
    /\ \E pair \in FailedPairs : \A i \in FailedLines : i - 1 < pair[1]
    /\ Len(verdict.v.errors) = Cardinality(FailedLines) + 2 * Cardinality(FailedPairs)

\* A haiku view with a line that fails after a line that fails.
C27_HaikuWitness ==
    /\ ret = "some"
    /\ Len(stanza) = Len(HaikuSyllables)
    /\ Len(is_haiku(stanza, indices).errors) >= 2

\* The result of each classifier for the view of the iterator, with the
\* number of lines the classifier requires.
Classifications ==
    { [required |-> Len(HaikuSyllables), result |-> is_haiku(stanza, indices)],
      [required |-> SonnetLines, result |-> is_shakespearean_sonnet(stanza, indices)] }

IsStanzaError(e) == e.kind = "StanzaError"

\* C21: for a view whose number of lines is not the required one a
\* classifier returns one StanzaError and nothing else, and for a view with
\* the required number of lines it returns no StanzaError.
C21_WrongLineCountIsOneStanzaError ==
    ret = "some" =>
        \A c \in Classifications :
            LET errors == c.result.errors
            IN  IF Len(stanza) # c.required
                THEN /\ ~c.result.ok
                     /\ Len(errors) = 1
                     /\ IsStanzaError(errors[1])
                ELSE \A n \in 1..Len(errors) : ~IsStanzaError(errors[n])

\* A view of 14 lines that fails checks of the sonnet classifier and is
\* turned down by the haiku classifier for its number of lines.
C21_Witness ==
    /\ ret = "some"
    /\ Len(stanza) = SonnetLines
    /\ Len(is_shakespearean_sonnet(stanza, indices).errors) >= 3
    /\ is_haiku(stanza, indices).errors
          = <<StanzaError(Txt_Expected \o Decimal(3) \o Txt_LinesButTheStanzaHas
                          \o Decimal(14) \o Txt_Period)>>

\* The errors at hand in a state: those of the two classifiers for the view
\* of the iterator and those kept as the best so far.
ErrorsAtHand ==
    { is_haiku(stanza, indices).errors[n] :
        n \in 1..Len(is_haiku(stanza, indices).errors) }
    \cup { verdict.v.errors[n] : n \in 1..Len(verdict.v.errors) }
    \cup { best_errors[n] : n \in 1..Len(best_errors) }

\* C24: the comparison of ClassifyErrors is a total order that agrees with
\* their equality: a StanzaError is before every LineError, StanzaErrors
\* are ordered by message and LineErrors by index and then message.
C24_ClassifyErrorTotalOrder ==
    (verdict.some /\ ret = "some") =>
        LET errs == ErrorsAtHand
        IN  /\ \A x \in errs : \A y \in errs :
                  LET c == ClassifyError_cmp(x, y)
                  IN  /\ c \in {-1, 0, 1}
                      /\ ClassifyError_cmp(y, x) = 0 - c
                      /\ (c = 0) <=> ClassifyError_eq(x, y)
                      /\ ClassifyError_eq(x, y) <=> (x = y)
                      /\ (IsStanzaError(x) /\ ~IsStanzaError(y)) => c = -1
                      /\ (IsStanzaError(x) /\ IsStanzaError(y)) => c = StrCmp(x.msg, y.msg)
                      /\ (~IsStanzaError(x) /\ ~IsStanzaError(y)) =>
                            c = IF x.index < y.index THEN -1
                                ELSE IF x.index > y.index THEN 1
                                ELSE StrCmp(x.msg, y.msg)
            /\ \A x \in errs : \A y \in errs :
                  ClassifyError_cmp(x, y) <= 0 =>
                      \A z \in errs :
                          ClassifyError_cmp(y, z) <= 0 => ClassifyError_cmp(x, z) <= 0

\* A StanzaError with LineErrors, two of them of one line and two of them
\* with one message.
C24_Witness ==
    /\ verdict.some /\ ret = "some"
    /\ LET errs == ErrorsAtHand
       IN  /\ \E x \in errs : IsStanzaError(x)
           /\ \E x \in errs : \E y \in errs :
                 ~IsStanzaError(x) /\ ~IsStanzaError(y) /\ x.index = y.index /\ x.msg # y.msg
           /\ \E x \in errs : \E y \in errs :
                 ~IsStanzaError(x) /\ ~IsStanzaError(y) /\ x.index # y.index /\ x.msg = y.msg

\* Two StanzaErrors with different messages.
C24_TwoStanzaErrors ==
    /\ verdict.some /\ ret = "some"
    /\ \E x \in ErrorsAtHand : \E y \in ErrorsAtHand :
          IsStanzaError(x) /\ IsStanzaError(y) /\ x # y

----------------------------------------------------------------------------
(* Properties of get_stanzas_from_text *)

LineKind(raw) ==
    LET line == trim(raw)
    IN  IF starts_with(line, <<35>>) THEN "comment"
        ELSE IF line = <<>> THEN "blank"
        ELSE "text"

LineKinds == [i \in 1..Len(input) |-> LineKind(input[i])]

\* The maximal runs of text lines, each as <<first line, last line>>.  Only
\* a blank line parts two text lines: comment lines are skipped entirely.
RunsOf(kind) ==
    LET text  == { i \in DOMAIN kind : kind[i] = "text" }
        blank == { i \in DOMAIN kind : kind[i] = "blank" }
        Separated(i, j) == \E k \in blank : i < k /\ k < j
    IN  { r \in text \X text :
            /\ r[1] <= r[2]
            /\ ~Separated(r[1], r[2])
            /\ \A k \in text : k < r[1] => Separated(k, r[1])
            /\ \A k \in text : k > r[2] => Separated(r[2], k) }

RunLines(kind, r) == { k \in r[1]..r[2] : kind[k] = "text" }

LongRunsOf(kind) ==
    { r \in RunsOf(kind) : Cardinality(RunLines(kind, r)) >= MinStanzaLines }

\* The n-th of a set of runs, in source order.
NthRun(runs, n) ==
    CHOOSE r \in runs : Cardinality({ q \in runs : q[1] <= r[1] }) = n

\* The k-th of a set of line numbers.
NthLine(nums, k) ==
    CHOOSE i \in nums : Cardinality({ j \in nums : j <= i }) = k

\* C17: the returned stanzas are, in source order, the maximal runs of
\* non-blank, non-comment lines that have two lines or more, each with all
\* the lines of its run in order; no other run and no blank line gives one.
C17_StanzasAreLongRuns ==
    returned =>
        LET kind == LineKinds
            long == LongRunsOf(kind)
        IN  /\ Len(output) = Cardinality(long)
            /\ \A n \in 1..Len(output) :
                  LET nums  == RunLines(kind, NthRun(long, n))
                      lines == output[n].lines
                  IN  /\ Len(lines) = Cardinality(nums)
                      /\ \A k \in 1..Len(lines) :
                            /\ lines[k].num = NthLine(nums, k)
                            /\ lines[k].raw_text = trim(input[NthLine(nums, k)])
                            /\ lines[k].index = k - 1

\* A text with a run of one line, two blank lines in a row and a run of
\* two lines around a comment line.
C17_Witness ==
    /\ returned
    /\ Len(output) = 1
    /\ LET kind == LineKinds
           long == NthRun(LongRunsOf(kind), 1)
       IN  /\ \E r \in RunsOf(kind) : r[1] = r[2]
           /\ \E i \in 1..(Len(input) - 1) : kind[i] = "blank" /\ kind[i + 1] = "blank"
           /\ \E i \in long[1]..long[2] : kind[i] = "comment"

\* The runs of one line between the previous run of two lines or more and
\* run r.  A run that another run follows was closed by a blank line.
TitleRuns(runs, long, r) ==
    { q \in runs \ long :
        /\ q[1] < r[1]
        /\ \A l \in long : l[1] < r[1] => l[1] < q[1] }

ExpectedTitle(runs, long, r) ==
    LET titles == TitleRuns(runs, long, r)
    IN  IF titles = {} THEN None
        ELSE Some(trim(input[NthRun(titles, Cardinality(titles))[1]]))

\* C18: the title of a returned stanza is the text of the latest block of
\* one line closed by a blank line since the stanza returned before it, and
\* none when there is no such block.
C18_TitleIsLatestSingleLineBlock ==
    returned =>
        LET kind == LineKinds
            runs == RunsOf(kind)
            long == LongRunsOf(kind)
        IN  /\ Len(output) = Cardinality(long)
            /\ \A n \in 1..Len(output) :
                  output[n].title = ExpectedTitle(runs, long, NthRun(long, n))

\* A title used by the stanza after it and not by the next one.
C18_Witness ==
    /\ returned
    /\ Len(output) = 2
    /\ output[1].title.some
    /\ ~output[2].title.some

\* A later block of one line takes the place of an earlier one.
C18_Replaced ==
    /\ returned
    /\ Len(output) = 1
    /\ LET kind == LineKinds
           long == LongRunsOf(kind)
       IN  Cardinality(TitleRuns(RunsOf(kind), long, NthRun(long, 1))) = 2
    /\ output[1].title = Some(<<98>>)

\* A block of one line that a blank line closed and no stanza follows is
\* in no title.
C18_Discarded ==
    /\ returned
    /\ Len(output) = 1
    /\ LET kind == LineKinds
       IN  \E q \in RunsOf(kind) \ LongRunsOf(kind) :
              /\ output[1].lines[1].num < q[1]
              /\ \E k \in q[1]..Len(input) : kind[k] = "blank"

\* The loop is about to read a comment line.
AtCommentLine ==
    /\ ~returned
    /\ line_num < Len(input)
    /\ LineKind(input[line_num + 1]) = "comment"

\* Lines i and j are text lines with comment lines, and nothing else,
\* between them.
PartedByComments(kind, i, j) ==
    /\ i + 1 < j
    /\ kind[i] = "text"
    /\ kind[j] = "text"
    /\ \A k \in (i + 1)..(j - 1) : kind[k] = "comment"

\* The source line numbers of the lines of the n-th returned stanza.
NumsOf(n) == { output[n].lines[k].num : k \in 1..Len(output[n].lines) }

\* C28: reading a comment line leaves the current block, the candidate
\* title and the stanzas kept so far as they were, and two text lines with
\* only comment lines between them are lines of one returned stanza.
C28_CommentLeavesParserState ==
    /\ [][AtCommentLine =>
            /\ line_num' = line_num + 1
            /\ UNCHANGED <<cur_stanza, candidate_title, output>>]_vars
    /\ [](returned =>
            LET kind == LineKinds
            IN  \A i \in 1..Len(input) : \A j \in 1..Len(input) :
                    PartedByComments(kind, i, j) =>
                        \E n \in 1..Len(output) : {i, j} \subseteq NumsOf(n))

\* A comment line between a title and its stanza, and one between the two
\* lines of the stanza.
C28_Witness ==
    /\ returned
    /\ Len(output) = 1
    /\ output[1].title.some
    /\ Len(output[1].lines) = 2
    /\ LET kind == LineKinds
           first == output[1].lines[1].num
       IN  /\ PartedByComments(kind, first, output[1].lines[2].num)
           /\ first > 1
           /\ kind[first - 1] = "comment"

----------------------------------------------------------------------------
(* Properties of normalize_for_lookup and of the Token of a word *)

\* The entries of the primary map, each with its key.
StoredEntries ==
    UNION { { [key |-> key, entry |-> entries[key][k]] : k \in 1..Len(entries[key]) } :
            key \in DOMAIN entries }

\* C22: every entry is stored under the normalized form of its word, and
\* the Token of a word that normalizes to the same string as the word of an
\* entry holds that entry.
C22_KeysAreNormalized ==
    /\ \A se \in StoredEntries : se.key = normalize_for_lookup(se.entry.word)
    /\ token.some =>
          \A se \in StoredEntries :
              token.v.text = normalize_for_lookup(se.entry.word) =>
                  /\ token.v.entry.some
                  /\ \E k \in 1..Len(token.v.entry.v) : token.v.entry.v[k] = se.entry

IsLetterOrDigit(c) == IsDigit(c) \/ IsUpper(c) \/ c \in 97..122

\* A letter or digit follows a period somewhere in the word.
LetterOrDigitAfterPeriod(w) ==
    \E i \in 1..Len(w) : \E j \in (i + 1)..Len(w) :
        w[i] = 46 /\ IsLetterOrDigit(w[j])

Periods(w) == Cardinality({ i \in 1..Len(w) : w[i] = 46 })

\* C23: the normalized form of a word in which no letter or digit follows
\* a period holds no period, and the normalized form of any other word
\* holds every period of the word.
C23_PeriodsStrippedUnlessInner ==
    (token.some /\ passes = 1) =>
        IF LetterOrDigitAfterPeriod(raw_word)
        THEN Periods(token.v.text) = Periods(raw_word)
        ELSE Periods(token.v.text) = 0

\* C30: the text of a Token is left as it is by normalize_for_lookup.
C30_NormalizeIsIdempotent ==
    (token.some /\ passes = 2) => token.v.text = raw_word

====
